---- MODULE Spec2Model ----
(***************************************************************************)
(* A model of the Epomaker RT100 host driver: the 64-byte report objects,  *)
(* the commands that own them, the RGB565 codec and the controller that    *)
(* hands reports to the HID transport.                                     *)
(*                                                                         *)
(* Bytes are integers 0..255 and a bytearray is a sequence of them.  A hex *)
(* string is a sequence of hex digits 0..15 (MINUS stands for the '-' that *)
(* Python's format prints for a negative value).  None is the integer      *)
(* NONE where the field is otherwise an integer.                           *)
(***************************************************************************)
EXTENDS Integers, Sequences, FiniteSets, TLC

VARIABLES
    rep,        \* the report object under test
    rsrc,       \* how rep was constructed: [builder, pad_on_init]
    rop,        \* the last operation applied to rep
    rexc,       \* the exception the last operation on rep raised
    rdone       \* the methods that have returned normally on rep

VARIABLES
    cmd,        \* the command object being built
    bpc,        \* where its builder stands
    b_img,      \* encode_image: the picture being encoded (0: none)
    b_report_index,       \* encode_image: the data loop's report_index;
                          \* _insert_report: the index of the report it was given
    b_data_buff_pointer,  \* encode_image: data_buff_pointer
    b_frames,   \* EpomakerKeyRGBCommand: the frames it was built from
    order       \* the report indexes in the order they were inserted

repvars == <<rep, rsrc, rop, rexc, rdone>>

cmdvars == <<cmd, bpc, b_img, b_report_index, b_data_buff_pointer, b_frames, order>>

VARIABLES
    device,     \* EpomakerController.device: "unopened", "open" or "none"
    dry_run,    \* EpomakerController.dry_run
    sent,       \* the reports handed to send_feature_report, in order
    cur,        \* the call in progress (its command and loop position)
    ctl_pc,     \* "idle", or "sending" inside the loop of _send_command
    last,       \* how the last finished call ended
    ncalls,     \* the number of calls made so far
    closes,     \* how often close() was called on the current HID handle
    proc,       \* the process: "running", "exited" (by a handler) or "killed"
    sig_delivered   \* the signal that ended the process ("none" while it runs)

VARIABLES
    c_rgb,      \* the colour given to _encode_rgb565
    c_pixel,    \* the pixel it returned
    c_back,     \* the colour _decode_rgb565 returned for that pixel
    c_pc        \* "new", "encoded" or "decoded"

VARIABLES
    o_prog,     \* the program that drives the controller
    o_in,       \* its arguments
    o_pc,       \* where it stands
    o_exc,      \* the exception that ended its body ("none": none)
    o_cycles,   \* start_daemon: the passes of its loop that have ended
    o_reading   \* start_daemon: the sensor reading it handed over last

VARIABLES
    now,        \* time.time(), in tenths of a second
    th,         \* the TimeHelper object in use (NoTimeHelper: none)
    send_start, \* start_daemon: when its last CPU or temperature send started
    send_gap    \* start_daemon: the time between the starts of its last two
                \* CPU or temperature sends

VARIABLES
    hid_host,   \* the main config and the keyboards the host has attached
    found,      \* the last _find_product_id call and what it returned
    ready       \* ControllerBase.ready

ctlvars == <<device, dry_run, sent, cur, ctl_pc, last, ncalls, closes, proc, sig_delivered>>

codvars == <<c_rgb, c_pixel, c_back, c_pc>>

opvars == <<o_prog, o_in, o_pc, o_exc, o_cycles, o_reading>>

clkvars == <<now, th, send_start, send_gap>>

hidvars == <<hid_host, found, ready>>

vars == <<repvars, cmdvars, ctlvars, codvars, opvars, clkvars, hidvars>>

NONE == 0 - 1
MINUS == 0 - 1

BUFF_LENGTH == 128 \div 2

Min(a, b) == IF a < b THEN a ELSE b

RECURSIVE SumBytes(_)
SumBytes(s) == IF s = <<>> THEN 0 ELSE Head(s) + SumBytes(Tail(s))

Zeros(n) == [j \in 1..n |-> 0]

(***************************************************************************)
(* Python slicing s[a:b] with 0 <= a <= b (clamped to the length).         *)
(***************************************************************************)
Slice(s, a, b) ==
    LET lo == Min(a, Len(s))
        hi == Min(b, Len(s))
    IN  IF hi <= lo THEN <<>> ELSE [j \in 1..(hi - lo) |-> s[lo + j]]

(***************************************************************************)
(* f"{v:02x}": the hex digits of v, zero-filled to width 2; a negative     *)
(* value prints a '-' and then the digits of -v (width counts the sign).   *)
(***************************************************************************)
RECURSIVE HexDigits(_)
HexDigits(v) == IF v < 16 THEN <<v>> ELSE HexDigits(v \div 16) \o <<v % 16>>

Fmt02x(v) ==
    IF v < 0 THEN <<MINUS>> \o HexDigits(0 - v)
    ELSE IF v < 16 THEN <<0, v>>
    ELSE HexDigits(v)

(***************************************************************************)
(* f"{v:04x}" for v >= 0.                                                  *)
(***************************************************************************)
Fmt04x(v) ==
    LET d == HexDigits(v)
    IN  IF Len(d) >= 4 THEN d ELSE Zeros(4 - Len(d)) \o d

(***************************************************************************)
(* bytearray.fromhex: pairs of hex digits, high digit first; a string of   *)
(* odd length or with a non-hex character raises ValueError.               *)
(***************************************************************************)
FromHexOk(h) == Len(h) % 2 = 0 /\ \A j \in 1..Len(h) : h[j] \in 0..15

FromHex(h) == [j \in 1..(Len(h) \div 2) |-> 16 * h[2 * j - 1] + h[2 * j]]

(***************************************************************************)
(* Report._calculate_checksum: 0xFF - (sum & 0xFF), masked to a byte.      *)
(***************************************************************************)
CalculateChecksum_TwosComplement(buffer) ==
    LET sum_bits == SumBytes(buffer) % 256
        checksum == (256 - sum_bits) % 256
    IN  <<checksum>>

CalculateChecksum(buffer) ==
    LET sum_bits == SumBytes(buffer) % 256
        checksum == (255 - sum_bits) % 256
    IN  <<checksum>>

(***************************************************************************)
(* A report object.  exc = "none" for a live object, else the exception    *)
(* its constructor raised (no object exists then).                         *)
(***************************************************************************)
NoReport(exc) ==
    [exc |-> exc, cls |-> "none", report_bytearray |-> <<>>, header_length |-> 0,
     checksum_index |-> NONE, index |-> 0, prepared |-> FALSE, has_data |-> FALSE,
     hdr |-> <<>>]

(***************************************************************************)
(* Report._pad on a bytearray: appends BUFF_LENGTH - len zero bytes;       *)
(* bytes(n) raises ValueError for n < 0.                                   *)
(***************************************************************************)
PadOk(b) == BUFF_LENGTH - Len(b) >= 0

PadBytes_ToDataLength(b) == b \o Zeros(BUFF_LENGTH - 8 - Len(b))

PadBytes(b) == b \o Zeros(BUFF_LENGTH - Len(b))

(***************************************************************************)
(* Report.__post_init__ for the formatted header string h.                 *)
(* hdr keeps the header bytes the checksum was computed over.              *)
(***************************************************************************)
NewReport(cls, h, checksum_index, index, pad_on_init) ==
    IF ~FromHexOk(h) THEN NoReport("ValueError")
    ELSE
      LET header == FromHex(h)
          b == IF checksum_index # NONE
               THEN header \o CalculateChecksum(header)
               ELSE header
      IN  IF ~(Len(b) <= BUFF_LENGTH) THEN NoReport("AssertionError")
          ELSE [exc |-> "none", cls |-> cls,
                report_bytearray |-> IF pad_on_init THEN PadBytes(b) ELSE b,
                header_length |-> Len(b),
                checksum_index |-> checksum_index, index |-> index,
                prepared |-> FALSE, has_data |-> FALSE, hdr |-> header]

Report(h, checksum_index, index) ==
    NewReport("Report", h, checksum_index, index, TRUE)

(***************************************************************************)
(* ReportWithData.__init__: Report.__init__ with pad_on_init = False; a    *)
(* report_data argument is stored (not appended) and sets prepared.        *)
(***************************************************************************)
ReportWithData(h, checksum_index, index, with_report_data) ==
    LET r == NewReport("ReportWithData", h, checksum_index, index, FALSE)
    IN  IF r.exc # "none" THEN r
        ELSE [r EXCEPT !.prepared = with_report_data, !.has_data = with_report_data]

(***************************************************************************)
(* Report._pad as a method: the object after the call and the exception.   *)
(***************************************************************************)
PadExc(r) == IF PadOk(r.report_bytearray) THEN "none" ELSE "ValueError"

Pad(r) ==
    IF PadOk(r.report_bytearray)
    THEN [r EXCEPT !.report_bytearray = PadBytes(r.report_bytearray)]
    ELSE r

(***************************************************************************)
(* ReportWithData.add_data: asserts not prepared, appends the data, pads,  *)
(* then sets prepared.  A failing _pad leaves the data appended.           *)
(***************************************************************************)
AddDataExc(r, data) ==
    IF r.prepared THEN "AssertionError"
    ELSE IF ~PadOk(r.report_bytearray \o data) THEN "ValueError"
    ELSE "none"

AddData(r, data) ==
    IF r.prepared THEN r
    ELSE
      LET appended == [r EXCEPT !.report_bytearray = r.report_bytearray \o data,
                                !.has_data = TRUE]
      IN  IF ~PadOk(appended.report_bytearray) THEN appended
          ELSE [Pad(appended) EXCEPT !.prepared = TRUE]

(***************************************************************************)
(* CommandStructure and its __len__.                                       *)
(***************************************************************************)
CommandStructure(s, d, f) ==
    [number_of_starter_reports |-> s, number_of_data_reports |-> d,
     number_of_footer_reports |-> f]

StructureLen(st) ==
    st.number_of_starter_reports + st.number_of_data_reports
        + st.number_of_footer_reports

(***************************************************************************)
(* list.sort(key=index) after list.append: the list held by a collection   *)
(* is only ever changed by append, which sorts, so all but the last        *)
(* element are in order and the stable sort moves the new element behind   *)
(* the elements whose index is not larger.  A list that is not in that     *)
(* shape is sorted by insertion from the left.                             *)
(***************************************************************************)
IsSortedByIndex(s) == \A j \in 1..(Len(s) - 1) : s[j].index <= s[j + 1].index

InsertByIndex(s, r) ==
    LET k == Cardinality({j \in 1..Len(s) : s[j].index <= r.index})
    IN  [j \in 1..(Len(s) + 1) |->
            IF j <= k THEN s[j] ELSE IF j = k + 1 THEN r ELSE s[j - 1]]

RECURSIVE SortByIndex(_)
SortByIndex(s) ==
    IF Len(s) <= 1 THEN s
    ELSE LET front == SubSeq(s, 1, Len(s) - 1)
         IN  IF IsSortedByIndex(front) THEN InsertByIndex(front, s[Len(s)])
             ELSE InsertByIndex(SortByIndex(front), s[Len(s)])

(***************************************************************************)
(* ReportCollection.append: rejects an index already present, appends and  *)
(* sorts by index.                                                         *)
(***************************************************************************)
AppendOk_AnyIndex(reports, report) == TRUE

AppendOk(reports, report) ==
    \A j \in 1..Len(reports) : reports[j].index # report.index

CollectionAppend_NoSort(reports, report) == Append(reports, report)

CollectionAppend(reports, report) == SortByIndex(Append(reports, report))

(***************************************************************************)
(* A command object; exc is the exception raised by the last operation on  *)
(* it ("none" when it returned).  A failed operation leaves the fields as  *)
(* the code leaves them at the raise.                                      *)
(***************************************************************************)
NoCommand(exc) ==
    [exc |-> exc, kind |-> "none", structure |-> CommandStructure(0, 0, 0),
     reports |-> <<>>, report_data_prepared |-> FALSE,
     report_footer_prepared |-> FALSE]

(***************************************************************************)
(* EpomakerCommand._insert_report: the index must be below the structure's *)
(* length; then ReportCollection.append.                                   *)
(***************************************************************************)
InsertExc(c, report) ==
    IF ~(report.index < StructureLen(c.structure)) THEN "AssertionError"
    ELSE IF ~AppendOk(c.reports, report) THEN "AssertionError"
    ELSE "none"

InsertReport(c, report) ==
    IF InsertExc(c, report) # "none" THEN [c EXCEPT !.exc = InsertExc(c, report)]
    ELSE [c EXCEPT !.exc = "none",
                   !.reports = CollectionAppend(c.reports, report)]

(***************************************************************************)
(* EpomakerCommand.__init__.  A structure whose length is 0 is falsy and   *)
(* is replaced by the default structure (1, 0, 0).  An initial report      *)
(* whose constructor raised means no command is constructed.               *)
(***************************************************************************)
EpomakerCommand(kind, initial_report, structure0) ==
    IF initial_report.exc # "none" THEN NoCommand(initial_report.exc)
    ELSE
      LET structure == IF StructureLen(structure0) = 0
                       THEN CommandStructure(1, 0, 0) ELSE structure0
          c == [exc |-> "none", kind |-> kind, structure |-> structure,
                reports |-> <<>>,
                report_data_prepared |-> (structure.number_of_data_reports = 0),
                report_footer_prepared |-> (structure.number_of_footer_reports = 0)]
          ins == InsertReport(c, initial_report)
      IN  IF ins.exc # "none" THEN NoCommand(ins.exc) ELSE ins

DefaultStructure == CommandStructure(0, 0, 0)

(***************************************************************************)
(* Single-report commands.                                                 *)
(***************************************************************************)
EpomakerTempCommand(temp) ==
    LET initialization_data ==
            <<2,10, 0,0, 0,0, 0,0, 0,0, 0,0, 0,0, 13,5>> \o Fmt02x(temp)
    IN  EpomakerCommand("Temp", Report(initialization_data, NONE, 0), DefaultStructure)

EpomakerCpuCommand(cpu) ==
    LET initialization_data ==
            <<2,2, 0,0, 0,0, 0,0, 0,0, 0,0, 0,0, 13,13,
              6,3, 0,0, 7,15, 0,0, 0,4, 0,0, 0,8, 0,0>> \o Fmt02x(cpu)
    IN  EpomakerCommand("Cpu", Report(initialization_data, NONE, 0), DefaultStructure)

(***************************************************************************)
(* Python's & and | on non-negative integers, << and >> by n bits.         *)
(***************************************************************************)
RECURSIVE BitAnd(_, _)
BitAnd(a, b) ==
    IF a = 0 \/ b = 0 THEN 0
    ELSE (a % 2) * (b % 2) + 2 * BitAnd(a \div 2, b \div 2)

RECURSIVE BitOr(_, _)
BitOr(a, b) ==
    IF a = 0 THEN b
    ELSE IF b = 0 THEN a
    ELSE (IF a % 2 = 1 \/ b % 2 = 1 THEN 1 ELSE 0) + 2 * BitOr(a \div 2, b \div 2)

Shl(a, n) == a * (2 ^ n)

Shr(a, n) == a \div (2 ^ n)

(***************************************************************************)
(* Profile enumerations (the values only).                                 *)
(***************************************************************************)
ProfileModes == (1..12) \cup {14, 15, 16, 17, 18, 19, 21}

ProfileSpeeds == {0, 4, 5}

ProfileBrightnesses == {0, 4}

ProfileDazzles == {7, 8}

ProfileOptions == {0, 1, 16, 32, 48}

(***************************************************************************)
(* EpomakerProfileCommand.__init__: an 8-byte header, checksum_index 8.    *)
(***************************************************************************)
ProfileReport(profile) ==
    LET initialization_data ==
            <<0,7>> \o Fmt02x(profile.mode) \o Fmt02x(profile.speed)
                \o Fmt02x(profile.brightness)
                \o Fmt02x(BitOr(profile.option, profile.dazzle))
                \o Fmt02x(profile.rgb[1]) \o Fmt02x(profile.rgb[2])
                \o Fmt02x(profile.rgb[3])
    IN  Report(initialization_data, 8, 0)

EpomakerProfileCommand(profile) ==
    EpomakerCommand("Profile", ProfileReport(profile), DefaultStructure)

(***************************************************************************)
(* EpomakerWirelessInitCommand: the CHUNKS table as the source holds it    *)
(* (its last two string literals are adjacent, with no comma between).     *)
(***************************************************************************)
ChunkFC == <<15,12>>

Chunk8(a, b, y, z) == <<a,b, 0,0, 0,0, 0,0, 0,0, 0,0, 0,0, y,z>>

CHUNKS ==
    << <<15,6, 0,10>>,
       Chunk8(8,15, 7,0), ChunkFC,
       Chunk8(8,7, 7,8), ChunkFC,
       Chunk8(8,0, 7,15), ChunkFC,
       Chunk8(10,13, 5,2), ChunkFC,
       Chunk8(8,4, 7,11), ChunkFC,
       Chunk8(8,5, 7,10), ChunkFC,
       Chunk8(8,7, 7,8), ChunkFC,
       Chunk8(8,6, 7,9), ChunkFC,
       Chunk8(9,1, 6,14), ChunkFC,
       Chunk8(9,2, 6,13), ChunkFC,
       Chunk8(9,7, 6,8) \o ChunkFC >>

EpomakerWirelessInitCommand ==
    EpomakerCommand("WirelessInit", Report(<<15,14, 4,0>>, NONE, 0),
                    CommandStructure(1, Len(CHUNKS), 0))

(***************************************************************************)
(* prepare_from_sequence: one Report per chunk, then the data flag.  The   *)
(* loop stops at the first insert that raises.                             *)
(***************************************************************************)
RECURSIVE PrepareLoop(_, _)
PrepareLoop(c, report_index) ==
    IF report_index >= c.structure.number_of_data_reports THEN c
    ELSE
      LET report == Report(CHUNKS[report_index + 1], NONE,
                           report_index + c.structure.number_of_starter_reports)
          ins == IF report.exc # "none" THEN [c EXCEPT !.exc = report.exc]
                 ELSE InsertReport(c, report)
      IN  IF ins.exc # "none" THEN ins ELSE PrepareLoop(ins, report_index + 1)

PrepareFromSequence(c) ==
    LET looped == PrepareLoop(c, 0)
    IN  IF looped.exc # "none" THEN looped
        ELSE [looped EXCEPT !.report_data_prepared = TRUE]

(***************************************************************************)
(* The RGB565 codec of EpomakerImageCommand.                               *)
(***************************************************************************)
EncodeRgb565_NoMask(r, g, b) == BitOr(BitOr(Shl(r, 8), Shl(g, 3)), Shr(b, 3))

EncodeRgb565(r, g, b) ==
    LET r_565 == Shl(BitAnd(r, 248), 8)
        g_565 == Shl(BitAnd(g, 252), 3)
        b_565 == Shr(BitAnd(b, 248), 3)
    IN  BitOr(BitOr(r_565, g_565), b_565)

DecodeRgb565_NoShift(pixel) ==
    LET r == Shr(BitAnd(pixel, 63488), 8)
        g == Shr(BitAnd(pixel, 2016), 3)
        b == BitAnd(pixel, 31)
    IN  <<BitOr(r, Shr(r, 5)), BitOr(g, Shr(g, 6)), BitOr(b, Shr(b, 5))>>

DecodeRgb565(pixel) ==
    LET r == Shr(BitAnd(pixel, 63488), 8)
        g == Shr(BitAnd(pixel, 2016), 3)
        b == Shl(BitAnd(pixel, 31), 3)
    IN  <<BitOr(r, Shr(r, 5)), BitOr(g, Shr(g, 6)), BitOr(b, Shr(b, 5))>>

(***************************************************************************)
(* The image after cv2.resize/flip/rotate/cvtColor: IMAGE_ROWS rows of     *)
(* IMAGE_COLS RGB pixels, each channel a uint8.  The pictures themselves   *)
(* are inputs: picture number img is a fixed pattern of pixel values.      *)
(***************************************************************************)
IMAGE_ROWS == 162

IMAGE_COLS == 173

OrientedPixel(img, y, x) ==
    << (37 * img + 5 * y + 3 * x) % 256,
       (91 * img + 2 * y + 7 * x) % 256,
       (255 - ((x + img * y) % 256)) >>

Image16(img, y, x) ==
    LET p == OrientedPixel(img, y, x) IN EncodeRgb565(p[1], p[2], p[3])

(***************************************************************************)
(* EpomakerCommand._np16_to_np8 followed by flatten: the byte at 0-based   *)
(* position k of the flat array; even positions hold the high bytes, odd   *)
(* positions the low bytes, of the row-major 16-bit values.                *)
(***************************************************************************)
FlatLength == IMAGE_ROWS * IMAGE_COLS * 2

Np16ToNp8Flat_LowFirst(img, k) ==
    LET p == k \div 2
        v == Image16(img, p \div IMAGE_COLS, p % IMAGE_COLS)
    IN  IF k % 2 = 0 THEN BitAnd(v, 255) ELSE Shr(v, 8)

Np16ToNp8Flat(img, k) ==
    LET p == k \div 2
        v == Image16(img, p \div IMAGE_COLS, p % IMAGE_COLS)
    IN  IF k % 2 = 0 THEN Shr(v, 8) ELSE BitAnd(v, 255)

(***************************************************************************)
(* image_8bit_flattened[a : a + n].tobytes()                               *)
(***************************************************************************)
FlatSlice(img, a, n) ==
    LET lo == Min(a, FlatLength)
        hi == Min(a + n, FlatLength)
    IN  IF hi <= lo THEN <<>> ELSE [j \in 1..(hi - lo) |-> Np16ToNp8Flat(img, lo + j - 1)]

(***************************************************************************)
(* EpomakerImageCommand.__init__                                           *)
(***************************************************************************)
ImageDataReports == 1000

EpomakerImageCommand ==
    EpomakerCommand("Image",
        Report(<<10,5, 0,0, 0,1, 0,0, 15,4, 13,10, 0,0, 8,11, 0,0, 0,0, 10,2, 10,13>>,
               NONE, 0),
        CommandStructure(1, ImageDataReports, 1))

report_data_header_length == 8

data_buff_length == BUFF_LENGTH - report_data_header_length

(***************************************************************************)
(* The header of an image data or footer report: n.to_bytes(2, "big") with *)
(* byte [1] (the low byte) formatted first and byte [0] second, then the   *)
(* flag byte.                                                              *)
(***************************************************************************)
ImageReportHeader_BigEndian(n, flag) ==
    <<2,5, 0,0, 0,1, 0,0>> \o Fmt02x(n \div 256) \o Fmt02x(n % 256) \o flag

ImageReportHeader(n, flag) ==
    LET index_bytes == <<n \div 256, n % 256>>
    IN  <<2,5, 0,0, 0,1, 0,0>> \o Fmt02x(index_bytes[2]) \o Fmt02x(index_bytes[1])
            \o flag

(***************************************************************************)
(* One pass of encode_image's data loop (lines 95-112) for report_index,   *)
(* with data_buff_pointer = ptr.                                           *)
(***************************************************************************)
EncodeDataReport(c, img, report_index, ptr) ==
    LET report == ReportWithData(ImageReportHeader(report_index, <<3,8>>), 7,
                      report_index + c.structure.number_of_starter_reports, FALSE)
        data == FlatSlice(img, ptr, data_buff_length)
    IN  IF report.exc # "none" THEN [c EXCEPT !.exc = report.exc]
        ELSE IF AddDataExc(report, data) # "none"
        THEN [c EXCEPT !.exc = AddDataExc(report, data)]
        ELSE InsertReport(c, AddData(report, data))

GetDataReports(c) ==
    SelectSeq(c.reports, LAMBDA r : r.cls = "ReportWithData")

(***************************************************************************)
(* The rest of encode_image (lines 114-150): the count assertion, the data *)
(* flag, the footer report with the remaining bytes, the footer flag and   *)
(* the final count assertion.                                              *)
(***************************************************************************)
EncodeFooter(c, img, ptr) ==
    IF Len(GetDataReports(c)) # c.structure.number_of_data_reports
    THEN [c EXCEPT !.exc = "AssertionError"]
    ELSE
      LET c1 == [c EXCEPT !.report_data_prepared = TRUE]
          n == c.structure.number_of_starter_reports
                 + c.structure.number_of_data_reports
                 - c.structure.number_of_footer_reports
          footer_report ==
              ReportWithData(ImageReportHeader(n, <<3,4>>), 7,
                  c.structure.number_of_starter_reports
                      + c.structure.number_of_data_reports, FALSE)
          data == FlatSlice(img, ptr, data_buff_length)
      IN  IF footer_report.exc # "none" THEN [c1 EXCEPT !.exc = footer_report.exc]
          ELSE IF AddDataExc(footer_report, data) # "none"
          THEN [c1 EXCEPT !.exc = AddDataExc(footer_report, data)]
          ELSE
            LET added == AddData(footer_report, data)
                ins == IF PadExc(added) # "none"
                       THEN [c1 EXCEPT !.exc = PadExc(added)]
                       ELSE InsertReport(c1, Pad(added))
            IN  IF ins.exc # "none" THEN ins
                ELSE IF Len(ins.reports) # StructureLen(ins.structure)
                THEN [ins EXCEPT !.report_footer_prepared = TRUE,
                                 !.exc = "AssertionError"]
                ELSE [ins EXCEPT !.report_footer_prepared = TRUE]

(***************************************************************************)
(* EpomakerKeyRGBCommand.  A frame is [key_map, time_ms, index]; key_map   *)
(* is the dict's items in iteration order, each [value, rgb].              *)
(***************************************************************************)
data_reports_per_frame == 7

(***************************************************************************)
(* The buffer of sub-report this_frame_report_index after the loops over   *)
(* the keys and their three colours: the buffer starts as zeros, and key k *)
(* (in the key map's iteration order) writes colour i at                   *)
(* value * 3 - this_frame_report_index * data_buffer_length + i when that  *)
(* lies in the buffer.  A position holds the colour of the last key that   *)
(* wrote it.                                                               *)
(***************************************************************************)
ThisFrameColourIndex_WholeReport(key, this_frame_report_index, i) ==
    (key.value * 3) - (this_frame_report_index * BUFF_LENGTH) + i

ThisFrameColourIndex(key, this_frame_report_index, i) ==
    (key.value * 3) - (this_frame_report_index * data_buff_length) + i

Writers(key_map, this_frame_report_index, pos) ==
    { k \in 1..Len(key_map) :
        \E i \in 0..2 :
            /\ ThisFrameColourIndex(key_map[k], this_frame_report_index, i) = pos
            /\ 0 <= pos /\ pos < data_buff_length }

LastOf(S) == CHOOSE k \in S : \A m \in S : m <= k

WriteKeys(key_map, this_frame_report_index) ==
    [j \in 1..data_buff_length |->
        LET w == Writers(key_map, this_frame_report_index, j - 1)
        IN  IF w = {} THEN 0
            ELSE LET key == key_map[LastOf(w)]
                     i == CHOOSE c \in 0..2 :
                              ThisFrameColourIndex(key, this_frame_report_index, c)
                                  = j - 1
                 IN  key.rgb[i + 1]]

KeyRGBReport(frames, frame, this_frame_report_index, report_index) ==
    ReportWithData(
        <<1,9>> \o Fmt02x(this_frame_report_index) \o Fmt02x(frame.index)
            \o Fmt02x(Len(frames)) \o Fmt02x(frame.time_ms) \o <<0,0, 0,0>>,
        7, report_index, FALSE)

(***************************************************************************)
(* Lines 96-127: the nested loops over frames and sub-reports, flattened:  *)
(* pass n (from 0) handles frame n div 7, sub-report n mod 7, and          *)
(* report_index = n + 1.  The loops stop at the first raise.               *)
(***************************************************************************)
RECURSIVE KeyRGBLoop(_, _, _)
KeyRGBLoop(c, frames, n) ==
    IF n >= Len(frames) * data_reports_per_frame THEN c
    ELSE
      LET frame == frames[(n \div data_reports_per_frame) + 1]
          this_frame_report_index == n % data_reports_per_frame
          report == KeyRGBReport(frames, frame, this_frame_report_index, n + 1)
          data_byterarray ==
              WriteKeys(frame.key_map, this_frame_report_index)
          ins == IF report.exc # "none" THEN [c EXCEPT !.exc = report.exc]
                 ELSE IF AddDataExc(report, data_byterarray) # "none"
                 THEN [c EXCEPT !.exc = AddDataExc(report, data_byterarray)]
                 ELSE InsertReport(c, AddData(report, data_byterarray))
      IN  IF ins.exc # "none" THEN ins ELSE KeyRGBLoop(ins, frames, n + 1)

EpomakerKeyRGBCommand(frames) ==
    LET c0 == EpomakerCommand("KeyRGB",
                  Report(<<1,8, 0,0, 0,0, 0,0, 0,0, 0,0, 0,0, 14,7>>, NONE, 0),
                  CommandStructure(1, Len(frames) * data_reports_per_frame, 0))
        looped == KeyRGBLoop(c0, frames, 0)
    IN  IF looped.exc # "none" THEN NoCommand(looped.exc)
        ELSE [looped EXCEPT !.report_data_prepared = TRUE]

(***************************************************************************)
(* EpomakerController.  device is "unopened" for the hid.device() handle   *)
(* that __init__ creates (truthy, but every query on it raises), "open"    *)
(* after open_path, "lost" for an opened handle whose keyboard no longer   *)
(* answers, and "none" for None.                                           *)
(*                                                                         *)
(* A call is a record: the operation and its argument, the device as the   *)
(* call found it, the command it sends, the loop position pos (from 1) in  *)
(* _send_command, the exception it ended with, the length of the           *)
(* transport log before and after it, and whether it repeated the call     *)
(* that finished right before it (recorded for close_device).              *)
(***************************************************************************)
NoCall ==
    [id |-> 0, op |-> "none", arg |-> 0, exc |-> "none", dev |-> "unopened",
     returned_early |-> FALSE, command |-> NoCommand("none"), pos |-> 0,
     sent_before |-> 0, sent_after |-> 0, repeated |-> FALSE]

(***************************************************************************)
(* _assert_range with the default range(0, 100).                           *)
(***************************************************************************)
AssertRange_UpTo100(value) == value \in 0..100

AssertRange(value) == value \in 0..99

(***************************************************************************)
(* _send_command before its loop: the device must be set, must answer      *)
(* get_product_string (any failure becomes IOError), and the command's     *)
(* report_data_prepared flag must be set.                                  *)
(***************************************************************************)
SendCommandExc(dev, command) ==
    IF dev = "none" THEN "AssertionError"
    ELSE IF dev # "open" THEN "IOError"
    ELSE IF ~command.report_data_prepared THEN "AssertionError"
    ELSE "none"

(***************************************************************************)
(* _send_command inside its loop: assert len(packet) == BUFF_LENGTH.       *)
(***************************************************************************)
PacketExc_NoLengthCheck(packet) == "none"

PacketExc(packet) ==
    IF Len(packet.report_bytearray) # BUFF_LENGTH THEN "AssertionError" ELSE "none"

(***************************************************************************)
(* close_device: a handle that is set is closed and dropped.  The first    *)
(* operator is the device afterwards, the second the number of close()     *)
(* calls the handle has then seen.                                         *)
(***************************************************************************)
CloseDeviceDevice_KeepsHandle(dev) == dev

CloseDeviceDevice(dev) == "none"

CloseDeviceCloses(dev, n) == IF dev # "none" THEN n + 1 ELSE n

(***************************************************************************)
(* _setup_signal_handling of EpomakerController: the signals whose handler *)
(* is _signal_handler.  Any other signal keeps its default disposition.    *)
(***************************************************************************)
Signals == {"SIGINT", "SIGTERM", "SIGQUIT"}

HandledSignals == {"SIGINT", "SIGTERM"}

(***************************************************************************)
(* send_temperature up to its call of _send_command: "return" when the     *)
(* argument is falsy (None or 0), ValueError when it is out of range.      *)
(***************************************************************************)
SendTemperaturePre(temperature, is_none) ==
    IF is_none \/ temperature = 0 THEN "return"
    ELSE IF ~AssertRange(temperature) THEN "ValueError"
    ELSE "none"

(***************************************************************************)
(* send_cpu up to its call of _send_command.                               *)
(***************************************************************************)
SendCpuPre(cpu) == IF ~AssertRange(cpu) THEN "ValueError" ELSE "none"

(***************************************************************************)
(* The arguments of a program that drives the controller, when no program  *)
(* runs.                                                                   *)
(***************************************************************************)
NoInput == [arg |-> 0, temp_key |-> FALSE, test_mode |-> FALSE]

(***************************************************************************)
(* TimeHelper.  Times are in tenths of a second.  __init__ and __lock take *)
(* start_time from the clock; __free sleeps for what is left of            *)
(* min_duration, if anything is left.  The class defines __enter__ and     *)
(* __exit__ only: a del statement on a TimeHelper unbinds the name and     *)
(* waits for nothing.                                                      *)
(***************************************************************************)
NoTimeHelper == [min_duration |-> 0, start_time |-> NONE]

TimeHelper(min_duration, t) == [min_duration |-> min_duration, start_time |-> t]

TimeHelperEnter(helper, t) == [helper EXCEPT !.start_time = t]

TimeHelperExit(helper, t) ==
    LET elapsed_time == t - helper.start_time
        remaining_time == helper.min_duration - elapsed_time
    IN  IF remaining_time > 0 THEN t + remaining_time ELSE t

DelTimeHelper(helper, t) == t

(***************************************************************************)
(* The main config's product IDs and the host's HID devices.  attached is  *)
(* the set of product IDs for which the vendor has a device attached;      *)
(* hid.enumerate passes product_id 0 on as "any product".                  *)
(***************************************************************************)
DEFAULT_MAIN_CONFIG ==
    [PRODUCT_IDS_WIRED |-> <<16400, 16405>>, PRODUCT_IDS_24G |-> <<16401, 16406>>]

DefaultHost ==
    [config |-> DEFAULT_MAIN_CONFIG, use_wireless |-> FALSE, attached |-> {16400}]

NotCalled == [called |-> FALSE, product_id |-> NONE]

HidEnumerate(attached, pid) == IF pid = 0 THEN attached ELSE attached \cap {pid}

ProductIds_Swapped(config, use_wireless) ==
    IF use_wireless THEN config.PRODUCT_IDS_WIRED ELSE config.PRODUCT_IDS_24G

ProductIds(config, use_wireless) ==
    IF ~use_wireless THEN config.PRODUCT_IDS_WIRED ELSE config.PRODUCT_IDS_24G

RECURSIVE FindProductId(_, _)
FindProductId(product_ids, attached) ==
    IF product_ids = <<>> THEN NONE
    ELSE IF HidEnumerate(attached, Head(product_ids)) # {} THEN Head(product_ids)
    ELSE FindProductId(Tail(product_ids), attached)

(***************************************************************************)
(* start_daemon's min_duration and sleep of 1.6 s, and the second that     *)
(* psutil.cpu_percent(interval=1) blocks for outside test mode.            *)
(***************************************************************************)
DaemonMinDuration == 16

DaemonSleep == 16

CpuPercentInterval == 10

SamplerTime(test_mode) == IF test_mode THEN 0 ELSE CpuPercentInterval

(***************************************************************************)
(* SpecReport: a report object is constructed by one of the repository's   *)
(* builders (or directly), and add_data and _pad are called on it in any   *)
(* order.                                                                  *)
(***************************************************************************)
MaxReportLen == 72

SampleRgb == { <<180, 180, 180>>, <<0, 0, 0>>, <<255, 255, 255>>, <<100, 5, 69>> }

Profiles ==
    [mode : ProfileModes, speed : ProfileSpeeds, brightness : ProfileBrightnesses,
     dazzle : ProfileDazzles, option : ProfileOptions, rgb : SampleRgb]

SampleReportIndexes == {0, 1, 255, 256, 999}

SampleTimes == {0, 50, 255}

SampleFrame(fi, tm) == [key_map |-> <<>>, time_ms |-> tm, index |-> fi]

SampleHeaderLengths == {0, 1, 8, 63, 64, 65}

PatternBytes(n, seed) == [j \in 1..n |-> (seed + 7 * j) % 256]

RECURSIVE HexOf(_)
HexOf(bytes) ==
    IF bytes = <<>> THEN <<>>
    ELSE <<Head(bytes) \div 16, Head(bytes) % 16>> \o HexOf(Tail(bytes))

SampleData ==
    { PatternBytes(n, 0) : n \in {0, 1, 52, 56, 57} } \cup { PatternBytes(56, 200) }

ReportInit ==
    /\ rep = NoReport("none")
    /\ rsrc = [builder |-> "none", pad_on_init |-> FALSE]
    /\ rop = "none"
    /\ rexc = "none"
    /\ rdone = {}
    /\ cmd = NoCommand("none")
    /\ bpc = "idle"
    /\ b_img = 0
    /\ b_report_index = 0
    /\ b_data_buff_pointer = 0
    /\ b_frames = <<>>
    /\ order = <<>>
    /\ device = "unopened"
    /\ dry_run = FALSE
    /\ sent = <<>>
    /\ cur = NoCall
    /\ ctl_pc = "idle"
    /\ last = NoCall
    /\ ncalls = 0
    /\ closes = 0
    /\ proc = "running"
    /\ sig_delivered = "none"
    /\ c_rgb = <<0, 0, 0>>
    /\ c_pixel = 0
    /\ c_back = <<0, 0, 0>>
    /\ c_pc = "new"
    /\ o_prog = "none"
    /\ o_in = NoInput
    /\ o_pc = "start"
    /\ o_exc = "none"
    /\ o_cycles = 0
    /\ o_reading = NONE
    /\ now = 0
    /\ th = NoTimeHelper
    /\ send_start = NONE
    /\ send_gap = NONE
    /\ hid_host = DefaultHost
    /\ found = NotCalled
    /\ ready = FALSE

Constructed(r, builder, pad_on_init) ==
    /\ rep' = r
    /\ rsrc' = [builder |-> builder, pad_on_init |-> pad_on_init]
    /\ rop' = "init"
    /\ rexc' = r.exc
    /\ rdone' = {}
    /\ UNCHANGED <<cmdvars, ctlvars, codvars, opvars, clkvars, hidvars>>

NewProfileReport ==
    /\ rop = "none"
    /\ \E profile \in Profiles : Constructed(ProfileReport(profile), "profile", TRUE)

NewImageReport ==
    /\ rop = "none"
    /\ \/ \E n \in SampleReportIndexes :
             Constructed(ReportWithData(ImageReportHeader(n, <<3,8>>), 7, n + 1, FALSE),
                         "image", FALSE)
       \/ Constructed(ReportWithData(ImageReportHeader(ImageDataReports, <<3,4>>), 7,
                                     ImageDataReports + 1, FALSE), "image", FALSE)

NewKeyRGBReport ==
    /\ rop = "none"
    /\ \E sub \in 0..(data_reports_per_frame - 1), fi \in 0..2, ft \in 1..3,
       tm \in SampleTimes :
        Constructed(KeyRGBReport([j \in 1..ft |-> SampleFrame(fi, tm)],
                                 SampleFrame(fi, tm), sub, 1 + 7 * fi + sub),
                    "keyrgb", FALSE)

NewPlainReport ==
    /\ rop = "none"
    /\ \E n \in SampleHeaderLengths, seed \in {0, 3}, ck \in BOOLEAN, pad \in BOOLEAN :
        Constructed(NewReport("Report", HexOf(PatternBytes(n, seed)),
                              IF ck THEN n ELSE NONE, 0, pad),
                    "plain", pad)

NewPlainReportWithData ==
    /\ rop = "none"
    /\ \E n \in SampleHeaderLengths, seed \in {0, 3}, ck \in BOOLEAN, wd \in BOOLEAN :
        Constructed(ReportWithData(HexOf(PatternBytes(n, seed)),
                                   IF ck THEN n ELSE NONE, 0, wd),
                    "plain", FALSE)

CallAddData ==
    /\ rep.exc = "none"
    /\ rep.cls = "ReportWithData"
    /\ \E data \in SampleData :
          /\ Len(rep.report_bytearray) + Len(data) <= MaxReportLen
          /\ rep' = AddData(rep, data)
          /\ rexc' = AddDataExc(rep, data)
          /\ rdone' = IF AddDataExc(rep, data) = "none"
                       THEN rdone \cup {"add_data"} ELSE rdone
    /\ rop' = "add_data"
    /\ UNCHANGED <<rsrc, cmdvars, ctlvars, codvars, opvars, clkvars, hidvars>>

CallPad ==
    /\ rep.exc = "none"
    /\ rep.cls # "none"
    /\ rep' = Pad(rep)
    /\ rexc' = PadExc(rep)
    /\ rdone' = IF PadExc(rep) = "none" THEN rdone \cup {"_pad"} ELSE rdone
    /\ rop' = "_pad"
    /\ UNCHANGED <<rsrc, cmdvars, ctlvars, codvars, opvars, clkvars, hidvars>>

ReportNext ==
    \/ NewProfileReport
    \/ NewImageReport
    \/ NewKeyRGBReport
    \/ NewPlainReport
    \/ NewPlainReportWithData
    \/ CallAddData
    \/ CallPad

SpecReport == ReportInit /\ [][ReportNext]_vars

C2_ChecksumComplementsHeader ==
    rep.exc = "none" /\ rsrc.builder \in {"profile", "image", "keyrgb"} =>
        LET i == rep.checksum_index
            b == rep.report_bytearray
        IN  /\ i = (IF rsrc.builder = "profile" THEN 8 ELSE 7)
            /\ Len(b) > i
            /\ (SumBytes(SubSeq(b, 1, i)) + b[i + 1]) % 256 = 255
            /\ SubSeq(b, 1, i) = rep.hdr
            /\ b[i + 1] + (SumBytes(rep.hdr) % 256) = 255

C2_Witness ==
    /\ rep.exc = "none"
    /\ rsrc.builder = "keyrgb"
    /\ "add_data" \in rdone
    /\ Len(rep.report_bytearray) = 64
    /\ \E j \in 9..64 : rep.report_bytearray[j] # 0
    /\ rep.report_bytearray[8] # 255

(***************************************************************************)
(* SpecCmd: one command object is built by one of the repository's         *)
(* builders.  encode_image runs one pass of its data loop per step; the    *)
(* other builders run whole.  A command built directly from                *)
(* EpomakerCommand takes reports through _insert_report in any order.      *)
(***************************************************************************)
MaxImages == 2

MaxFrames == 2

MaxInserts == 5

AllKeyValues == 0..101

SparseKeyValues == <<101, 18, 0, 37, 19>>

KeyMapAllSet == [j \in 1..Cardinality(AllKeyValues) |->
                    [value |-> j - 1, rgb |-> <<100, 5, 69>>]]

KeyMapUnique == [j \in 1..Len(SparseKeyValues) |->
                    [value |-> SparseKeyValues[j],
                     rgb |-> <<SparseKeyValues[j] + 1, 255 - SparseKeyValues[j], 17 * j>>]]

KeyMapSingle == [j \in 1..Len(SparseKeyValues) |->
                    [value |-> SparseKeyValues[j],
                     rgb |-> IF SparseKeyValues[j] = 18 THEN <<255, 1, 2>>
                             ELSE <<0, 0, 0>>]]

SampleKeyFrames ==
    { [key_map |-> KeyMapAllSet, time_ms |-> 50],
      [key_map |-> KeyMapUnique, time_ms |-> 0],
      [key_map |-> KeyMapSingle, time_ms |-> 255] }

(***************************************************************************)
(* Frame lists: each frame carries its list position as index, or every    *)
(* frame keeps the default index 0.                                        *)
(***************************************************************************)
FrameLists ==
    UNION { { [p \in 1..n |-> [key_map |-> f[p].key_map, time_ms |-> f[p].time_ms,
                               index |-> IF positional THEN p - 1 ELSE 0]] :
                f \in [1..n -> SampleKeyFrames], positional \in BOOLEAN } :
            n \in 0..MaxFrames }

SampleTemps == {1, 42, 99}

SampleStructures ==
    { CommandStructure(1, 0, 0), CommandStructure(0, 0, 0), CommandStructure(1, 2, 0),
      CommandStructure(1, 1, 1), CommandStructure(1, 0, 1) }

CmdInit ==
    /\ rep = NoReport("none")
    /\ rsrc = [builder |-> "none", pad_on_init |-> FALSE]
    /\ rop = "none"
    /\ rexc = "none"
    /\ rdone = {}
    /\ cmd = NoCommand("none")
    /\ bpc = "idle"
    /\ b_img = 0
    /\ b_report_index = 0
    /\ b_data_buff_pointer = 0
    /\ b_frames = <<>>
    /\ order = <<>>
    /\ device = "unopened"
    /\ dry_run = FALSE
    /\ sent = <<>>
    /\ cur = NoCall
    /\ ctl_pc = "idle"
    /\ last = NoCall
    /\ ncalls = 0
    /\ closes = 0
    /\ proc = "running"
    /\ sig_delivered = "none"
    /\ c_rgb = <<0, 0, 0>>
    /\ c_pixel = 0
    /\ c_back = <<0, 0, 0>>
    /\ c_pc = "new"
    /\ o_prog = "none"
    /\ o_in = NoInput
    /\ o_pc = "start"
    /\ o_exc = "none"
    /\ o_cycles = 0
    /\ o_reading = NONE
    /\ now = 0
    /\ th = NoTimeHelper
    /\ send_start = NONE
    /\ send_gap = NONE
    /\ hid_host = DefaultHost
    /\ found = NotCalled
    /\ ready = FALSE

Built(c) ==
    /\ cmd' = c
    /\ bpc' = IF c.exc = "none" THEN "done" ELSE "raised"
    /\ order' = [j \in 1..Len(c.reports) |-> c.reports[j].index]
    /\ UNCHANGED <<repvars, ctlvars, codvars, opvars, clkvars, hidvars, b_img, b_report_index, b_data_buff_pointer>>

BuildSingleReportCommand ==
    /\ bpc = "idle"
    /\ \/ \E t \in SampleTemps : Built(EpomakerTempCommand(t))
       \/ \E t \in SampleTemps : Built(EpomakerCpuCommand(t))
       \/ \E profile \in {q \in Profiles : q.rgb = <<180, 180, 180>>} :
             Built(EpomakerProfileCommand(profile))
    /\ UNCHANGED b_frames

BuildKeyRGBCommand ==
    /\ bpc = "idle"
    /\ \E fl \in FrameLists :
          /\ Built(EpomakerKeyRGBCommand(fl))
          /\ b_frames' = fl

NewWirelessInitCommand ==
    /\ bpc = "idle"
    /\ cmd' = EpomakerWirelessInitCommand
    /\ bpc' = "wireless"
    /\ order' = <<0>>
    /\ UNCHANGED <<repvars, ctlvars, codvars, opvars, clkvars, hidvars, b_img, b_report_index, b_data_buff_pointer, b_frames>>

CallPrepareFromSequence ==
    /\ bpc = "wireless"
    /\ Built(PrepareFromSequence(cmd))
    /\ UNCHANGED b_frames

(***************************************************************************)
(* encode_image on a readable picture: the command is constructed, then    *)
(* the data loop runs pass by pass, then the footer is added.              *)
(***************************************************************************)
StartEncodeImage ==
    /\ bpc = "idle"
    /\ \E i \in 1..MaxImages : b_img' = i
    /\ cmd' = EpomakerImageCommand
    /\ bpc' = "encoding"
    /\ b_report_index' = 0
    /\ b_data_buff_pointer' = 0
    /\ order' = <<0>>
    /\ UNCHANGED <<repvars, ctlvars, codvars, opvars, clkvars, hidvars, b_frames>>

EncodeDataPass ==
    /\ bpc = "encoding"
    /\ b_report_index < cmd.structure.number_of_data_reports
    /\ LET c == EncodeDataReport(cmd, b_img, b_report_index, b_data_buff_pointer)
       IN  /\ cmd' = c
           /\ bpc' = IF c.exc = "none" THEN "encoding" ELSE "raised"
           /\ order' = IF c.exc = "none"
                        THEN Append(order, b_report_index
                                 + cmd.structure.number_of_starter_reports)
                        ELSE order
    /\ b_data_buff_pointer' = b_data_buff_pointer + data_buff_length
    /\ b_report_index' = b_report_index + 1
    /\ UNCHANGED <<repvars, ctlvars, codvars, opvars, clkvars, hidvars, b_img, b_frames>>

EncodeFooterPass ==
    /\ bpc = "encoding"
    /\ b_report_index >= cmd.structure.number_of_data_reports
    /\ LET c == EncodeFooter(cmd, b_img, b_data_buff_pointer)
       IN  /\ cmd' = c
           /\ bpc' = IF c.exc = "none" THEN "done" ELSE "raised"
           /\ order' = IF c.exc = "none"
                        THEN Append(order, cmd.structure.number_of_starter_reports
                                 + cmd.structure.number_of_data_reports)
                        ELSE order
    /\ UNCHANGED <<repvars, ctlvars, codvars, opvars, clkvars, hidvars, b_img, b_report_index, b_data_buff_pointer, b_frames>>

(***************************************************************************)
(* A command built directly: EpomakerCommand(initial_report, structure),   *)
(* then _insert_report with reports of any index.                          *)
(***************************************************************************)
NewPlainCommand ==
    /\ bpc = "idle"
    /\ \E st \in SampleStructures, first \in 0..2 :
          LET c == EpomakerCommand("Plain", Report(<<15,7>>, NONE, first), st)
          IN  /\ cmd' = c
              /\ bpc' = IF c.exc = "none" THEN "open" ELSE "raised"
              /\ order' = IF c.exc = "none" THEN <<first>> ELSE <<>>
    /\ UNCHANGED <<repvars, ctlvars, codvars, opvars, clkvars, hidvars, b_img, b_report_index, b_data_buff_pointer, b_frames>>

CallInsertReport ==
    /\ bpc = "open"
    /\ Len(order) < MaxInserts
    /\ \E index \in 0..3 :
          LET c == InsertReport(cmd, Report(<<15,7>> \o Fmt02x(index), NONE, index))
          IN  /\ cmd' = c
              /\ b_report_index' = index
              /\ order' = IF c.exc = "none" THEN Append(order, index) ELSE order
    /\ UNCHANGED <<repvars, ctlvars, codvars, opvars, clkvars, hidvars, bpc, b_img, b_data_buff_pointer, b_frames>>

CmdNext ==
    \/ BuildSingleReportCommand
    \/ BuildKeyRGBCommand
    \/ NewWirelessInitCommand
    \/ CallPrepareFromSequence
    \/ StartEncodeImage
    \/ EncodeDataPass
    \/ EncodeFooterPass
    \/ NewPlainCommand
    \/ CallInsertReport

SpecCmd == CmdInit /\ [][CmdNext]_vars

(***************************************************************************)
(* A command is fully built when its builder has returned; a command built *)
(* directly is fully built when it holds as many reports as its structure  *)
(* declares.                                                               *)
(***************************************************************************)
FullyBuilt ==
    \/ bpc = "done"
    \/ bpc = "open" /\ Len(cmd.reports) = StructureLen(cmd.structure)

(***************************************************************************)
(* C5: in a fully built command the report indexes are exactly 0..N-1,     *)
(* N = n_starter + n_data + n_footer, each once, and the reports are held  *)
(* (and iterated) in strictly ascending index whatever the order they were *)
(* inserted in.                                                            *)
(***************************************************************************)
C5_IndexesContiguousAscending ==
    FullyBuilt =>
        /\ Len(cmd.reports) = StructureLen(cmd.structure)
        /\ \A j \in 1..Len(cmd.reports) : cmd.reports[j].index = j - 1

C5_Witness ==
    /\ bpc = "open"
    /\ Len(cmd.reports) = StructureLen(cmd.structure)
    /\ Len(order) = 3
    /\ order[1] > order[2]
    /\ order[2] < order[3]

(***************************************************************************)
(* The big-endian RGB565 stream of picture i: pixel p (row-major) packs to *)
(* rrrrrggggggbbbbb, its high byte at stream position 2p, its low byte at  *)
(* 2p + 1.                                                                 *)
(***************************************************************************)
Rgb565StreamByte(i, k) ==
    LET p == k \div 2
        px == OrientedPixel(i, p \div IMAGE_COLS, p % IMAGE_COLS)
        packed == (px[1] \div 8) * 2048 + (px[2] \div 4) * 32 + (px[3] \div 8)
    IN  IF k % 2 = 0 THEN packed \div 256 ELSE packed % 256

(***************************************************************************)
(* Byte k (from 0) of the concatenation of bytes 8..63 of reports 1, 2, .. *)
(***************************************************************************)
PayloadByte(c, k) == c.reports[2 + (k \div 56)].report_bytearray[9 + (k % 56)]

(***************************************************************************)
(* C6: after encode_image the command holds exactly 1002 reports of 64     *)
(* bytes, and the concatenation of bytes 8..63 of reports 1..1001 is the   *)
(* 56052-byte RGB565 stream of the picture followed by exactly 4 zero      *)
(* bytes; while the data loop runs, the report it inserted last carries    *)
(* the next 56 stream bytes.                                               *)
(***************************************************************************)
C6_ImagePayloadIsStream ==
    /\ bpc = "encoding" /\ Len(cmd.reports) > 1 =>
          LET n == Len(cmd.reports) - 1
          IN  /\ cmd.reports[n + 1].index = n
              /\ Len(cmd.reports[n + 1].report_bytearray) = 64
              /\ \A k \in (56 * (n - 1))..(56 * n - 1) :
                    PayloadByte(cmd, k) = Rgb565StreamByte(b_img, k)
    /\ bpc = "done" /\ cmd.kind = "Image" =>
          /\ Len(cmd.reports) = 1002
          /\ \A j \in 1..1002 :
                /\ cmd.reports[j].index = j - 1
                /\ Len(cmd.reports[j].report_bytearray) = 64
          /\ \A k \in 0..56051 : PayloadByte(cmd, k) = Rgb565StreamByte(b_img, k)
          /\ \A k \in 56052..56055 : PayloadByte(cmd, k) = 0

C6_Witness ==
    /\ bpc = "done"
    /\ cmd.kind = "Image"
    /\ b_img = 2
    /\ Len(cmd.reports) = 1002
    /\ PayloadByte(cmd, 56051) # 0
    /\ PayloadByte(cmd, 56000) # PayloadByte(cmd, 0)

(***************************************************************************)
(* The 392-byte colour buffer of a key map: key value v holds its R, G, B  *)
(* at offsets 3v, 3v + 1, 3v + 2; every other offset holds 0.              *)
(***************************************************************************)
ColourBufferByte(key_map, o) ==
    LET hits == { k \in 1..Len(key_map) : key_map[k].value = o \div 3 }
    IN  IF hits = {} THEN 0
        ELSE key_map[CHOOSE k \in hits : TRUE].rgb[(o % 3) + 1]

(***************************************************************************)
(* C7: a key-RGB command built from F frames holds exactly 1 + 7F reports, *)
(* and for the frame at list position p (from 0) the concatenation of      *)
(* bytes 8..63 of reports 1+7p .. 7+7p is that frame's 392-byte colour     *)
(* buffer.                                                                 *)
(***************************************************************************)
C7_KeyColoursAtThreeTimesValue ==
    bpc = "done" /\ cmd.kind = "KeyRGB" =>
        /\ Len(cmd.reports) = 1 + 7 * Len(b_frames)
        /\ \A p \in 0..(Len(b_frames) - 1) : \A o \in 0..391 :
              LET r == cmd.reports[2 + 7 * p + (o \div 56)]
              IN  /\ r.index = 1 + 7 * p + (o \div 56)
                  /\ Len(r.report_bytearray) = 64
                  /\ r.report_bytearray[9 + (o % 56)]
                        = ColourBufferByte(b_frames[p + 1].key_map, o)

(***************************************************************************)
(* A second frame whose key of value 18 is lit: two of its bytes end       *)
(* sub-report 0 and the third starts sub-report 1.                         *)
(***************************************************************************)
C7_Witness ==
    /\ bpc = "done"
    /\ cmd.kind = "KeyRGB"
    /\ Len(b_frames) = 2
    /\ cmd.reports[9].report_bytearray[63] = 255
    /\ cmd.reports[9].report_bytearray[64] = 1
    /\ cmd.reports[10].report_bytearray[9] = 2

(***************************************************************************)
(* Spec: one EpomakerController and the calls a program makes on it, one   *)
(* at a time.  A call that reaches the loop of _send_command hands over    *)
(* one report per step.                                                    *)
(***************************************************************************)
MaxCalls == 2

TemperatureInputs == {0 - 100, 0, 1, 16, 99, 100}

CpuInputs == {0 - 1, 0, 99, 101}

ProfileInputs ==
    { [mode |-> 1, speed |-> 0, brightness |-> 0, dazzle |-> 7, option |-> 0,
       rgb |-> <<180, 180, 180>>],
      [mode |-> 21, speed |-> 4, brightness |-> 4, dazzle |-> 8, option |-> 48,
       rgb |-> <<100, 5, 69>>] }

KeyFrameInputs ==
    { <<>>, <<[key_map |-> KeyMapSingle, time_ms |-> 255, index |-> 0]>> }

PlainHeader == <<15,14, 4,0>>

(***************************************************************************)
(* encode_image up to its first use of the picture: the suffix must be a   *)
(* supported one and cv2.imread must return a picture (it returns None for *)
(* a file that is missing or is not a picture).                            *)
(***************************************************************************)
EncodeImageExc(image_path) ==
    IF ~image_path.supported_format THEN "AssertionError"
    ELSE IF ~image_path.readable THEN "AssertionError"
    ELSE "none"

(***************************************************************************)
(* Paths that hold no picture: one with a suffix encode_image rejects, one *)
(* with a suffix it accepts (a file that is missing or is not a picture).  *)
(***************************************************************************)
ImagePathInputs ==
    << [supported_format |-> FALSE, readable |-> FALSE],
       [supported_format |-> TRUE, readable |-> FALSE] >>

(***************************************************************************)
(* Commands handed to _send_command directly: a wireless-init command      *)
(* before and after prepare_from_sequence, an image command before         *)
(* encode_image, a command that declares a footer it never received, and   *)
(* commands holding a ReportWithData that never received its data.         *)
(***************************************************************************)
RawCommands ==
    << EpomakerWirelessInitCommand,
       PrepareFromSequence(EpomakerWirelessInitCommand),
       EpomakerImageCommand,
       EpomakerCommand("Plain", Report(PlainHeader, NONE, 0),
                       CommandStructure(1, 0, 1)),
       EpomakerCommand("Plain", ReportWithData(PlainHeader, NONE, 0, FALSE),
                       DefaultStructure),
       InsertReport(EpomakerCommand("Plain", Report(PlainHeader, NONE, 0),
                                    CommandStructure(2, 0, 0)),
                    ReportWithData(PlainHeader, NONE, 1, FALSE)) >>

Init ==
    /\ rep = NoReport("none")
    /\ rsrc = [builder |-> "none", pad_on_init |-> FALSE]
    /\ rop = "none"
    /\ rexc = "none"
    /\ rdone = {}
    /\ cmd = NoCommand("none")
    /\ bpc = "idle"
    /\ b_img = 0
    /\ b_report_index = 0
    /\ b_data_buff_pointer = 0
    /\ b_frames = <<>>
    /\ order = <<>>
    /\ device = "unopened"
    /\ dry_run \in BOOLEAN
    /\ sent = <<>>
    /\ cur = NoCall
    /\ ctl_pc = "idle"
    /\ last = NoCall
    /\ ncalls = 0
    /\ closes = 0
    /\ proc = "running"
    /\ sig_delivered = "none"
    /\ c_rgb = <<0, 0, 0>>
    /\ c_pixel = 0
    /\ c_back = <<0, 0, 0>>
    /\ c_pc = "new"
    /\ o_prog = "none"
    /\ o_in = NoInput
    /\ o_pc = "start"
    /\ o_exc = "none"
    /\ o_cycles = 0
    /\ o_reading = NONE
    /\ now = 0
    /\ th = NoTimeHelper
    /\ send_start = NONE
    /\ send_gap = NONE
    /\ hid_host = DefaultHost
    /\ found = NotCalled
    /\ ready = FALSE

(***************************************************************************)
(* A call that does not send: it ends at once with exc.                    *)
(***************************************************************************)
Finished(op, exc, dev_after, closes_after) ==
    /\ device' = dev_after
    /\ closes' = closes_after
    /\ last' = [NoCall EXCEPT !.op = op, !.exc = exc, !.dev = device,
                              !.sent_before = Len(sent), !.sent_after = Len(sent),
                              !.repeated = (op = "close_device" /\ last.op = op)]
    /\ UNCHANGED <<dry_run, sent, cur, ctl_pc, ncalls, proc, sig_delivered,
                   repvars, cmdvars, codvars, opvars, clkvars, hidvars>>

(***************************************************************************)
(* open_device (with _open_device).  What the host finds is the            *)
(* environment's choice.                                                   *)
(***************************************************************************)
OpenDevice ==
    /\ proc = "running"
    /\ ctl_pc = "idle"
    /\ IF dry_run THEN Finished("open_device", "none", device, closes)
       ELSE \/ Finished("open_device", "ValueError", device, closes)   \* no product id
            \/ Finished("open_device", "none", device, closes)         \* only_info
            \/ Finished("open_device", "AssertionError", "none", 0)    \* open_path raised
            \/ Finished("open_device", "none", "open", 0)

(***************************************************************************)
(* close_device.                                                           *)
(***************************************************************************)
CloseDevice ==
    /\ proc = "running"
    /\ ctl_pc = "idle"
    /\ Finished("close_device", "none", CloseDeviceDevice(device),
                CloseDeviceCloses(device, closes))

(***************************************************************************)
(* The keyboard is unplugged: the opened handle stays, its queries raise.  *)
(***************************************************************************)
DeviceLost ==
    /\ proc = "running"
    /\ device = "open"
    /\ device' = "lost"
    /\ UNCHANGED <<dry_run, sent, cur, ctl_pc, last, ncalls, closes, proc,
                   sig_delivered, repvars, cmdvars, codvars, opvars, clkvars, hidvars>>

(***************************************************************************)
(* A signal arrives, at any point of a call.  _signal_handler closes the   *)
(* device and ends the process with os._exit(0); a signal without a        *)
(* handler ends the process at once.                                       *)
(***************************************************************************)
DeliverSignal ==
    /\ proc = "running"
    /\ \E sig \in Signals :
          /\ sig_delivered' = sig
          /\ IF sig \in HandledSignals
             THEN /\ device' = CloseDeviceDevice(device)
                  /\ closes' = CloseDeviceCloses(device, closes)
                  /\ proc' = "exited"
             ELSE /\ proc' = "killed"
                  /\ UNCHANGED <<device, closes>>
    /\ UNCHANGED <<dry_run, sent, cur, ctl_pc, last, ncalls, repvars, cmdvars, codvars, opvars, clkvars, hidvars>>

(***************************************************************************)
(* A sending call up to the loop of _send_command.  pre is what the method *)
(* decided before calling _send_command.                                   *)
(***************************************************************************)
BeginCall(op, arg, pre, command) ==
    LET exc == IF pre # "none" THEN pre
               ELSE IF command.exc # "none" THEN command.exc
               ELSE SendCommandExc(device, command)
        call == [id |-> ncalls + 1, op |-> op, arg |-> arg, exc |-> "none",
                 dev |-> device, returned_early |-> FALSE,
                 command |-> IF pre # "none" THEN NoCommand("none") ELSE command,
                 pos |-> 1, sent_before |-> Len(sent), sent_after |-> Len(sent),
                 repeated |-> FALSE]
    IN  /\ ncalls' = ncalls + 1
        /\ IF exc = "none"
           THEN /\ ctl_pc' = "sending"
                /\ cur' = call
                /\ last' = last
           ELSE /\ ctl_pc' = "idle"
                /\ cur' = NoCall
                /\ last' = [call EXCEPT
                               !.exc = IF exc = "return" THEN "none" ELSE exc,
                               !.returned_early = (exc = "return"),
                               !.pos = 0]
        /\ UNCHANGED <<device, dry_run, sent, closes, proc, sig_delivered,
                       repvars, cmdvars, codvars, opvars, clkvars, hidvars>>

CallSendTemperature ==
    /\ proc = "running"
    /\ ctl_pc = "idle"
    /\ ncalls < MaxCalls
    /\ \E temperature \in TemperatureInputs :
          BeginCall("send_temperature", temperature,
                    SendTemperaturePre(temperature, FALSE),
                    EpomakerTempCommand(temperature))

CallSendTemperatureNone ==
    /\ proc = "running"
    /\ ctl_pc = "idle"
    /\ ncalls < MaxCalls
    /\ BeginCall("send_temperature_none", 0, SendTemperaturePre(0, TRUE),
                 NoCommand("none"))

CallSendCpu ==
    /\ proc = "running"
    /\ ctl_pc = "idle"
    /\ ncalls < MaxCalls
    /\ \E cpu \in CpuInputs :
          BeginCall("send_cpu", cpu, SendCpuPre(cpu), EpomakerCpuCommand(cpu))

CallSetProfile ==
    /\ proc = "running"
    /\ ctl_pc = "idle"
    /\ ncalls < MaxCalls
    /\ \E profile \in ProfileInputs :
          BeginCall("set_profile", profile.mode, "none",
                    EpomakerProfileCommand(profile))

CallSendKeys ==
    /\ proc = "running"
    /\ ctl_pc = "idle"
    /\ ncalls < MaxCalls
    /\ \E frames \in KeyFrameInputs :
          BeginCall("send_keys", Len(frames), "none", EpomakerKeyRGBCommand(frames))

(***************************************************************************)
(* send_image with a path that holds no picture: encode_image raises       *)
(* before _send_command is called.                                         *)
(***************************************************************************)
CallSendImage ==
    /\ proc = "running"
    /\ ctl_pc = "idle"
    /\ ncalls < MaxCalls
    /\ \E k \in 1..Len(ImagePathInputs) :
          BeginCall("send_image", k, "none",
                    [EpomakerImageCommand EXCEPT
                        !.exc = EncodeImageExc(ImagePathInputs[k])])

CallSendCommand ==
    /\ proc = "running"
    /\ ctl_pc = "idle"
    /\ ncalls < MaxCalls
    /\ \E k \in 1..Len(RawCommands) :
          BeginCall("_send_command", k, "none", RawCommands[k])

(***************************************************************************)
(* One pass of the loop of _send_command: the length assertion, then       *)
(* send_feature_report (skipped in a dry run).                             *)
(***************************************************************************)
SendStep ==
    /\ proc = "running"
    /\ ctl_pc = "sending"
    /\ LET packet == cur.command.reports[cur.pos]
           exc == PacketExc(packet)
           out == IF exc = "none" /\ ~dry_run
                  THEN Append(sent, [call |-> cur.id, op |-> cur.op, arg |-> cur.arg,
                                     index |-> packet.index,
                                     bytes |-> packet.report_bytearray])
                  ELSE sent
           finished == exc # "none" \/ cur.pos = Len(cur.command.reports)
       IN  /\ sent' = out
           /\ IF finished
              THEN /\ ctl_pc' = "idle"
                   /\ last' = [cur EXCEPT !.exc = exc, !.sent_after = Len(out)]
                   /\ cur' = NoCall
              ELSE /\ ctl_pc' = "sending"
                   /\ cur' = [cur EXCEPT !.pos = @ + 1]
                   /\ last' = last
    /\ UNCHANGED <<device, dry_run, ncalls, closes, proc, sig_delivered,
                   repvars, cmdvars, codvars, opvars, clkvars, hidvars>>

Next ==
    \/ OpenDevice
    \/ CloseDevice
    \/ DeviceLost
    \/ DeliverSignal
    \/ CallSendTemperature
    \/ CallSendTemperatureNone
    \/ CallSendCpu
    \/ CallSetProfile
    \/ CallSendKeys
    \/ CallSendImage
    \/ CallSendCommand
    \/ SendStep

Spec == Init /\ [][Next]_vars

(***************************************************************************)
(* The reports a call has handed over are the first n reports of its       *)
(* command, in the command's order, from position sent_before + 1 of the   *)
(* transport log.                                                          *)
(***************************************************************************)
HandedOver(call, n) ==
    /\ Len(sent) >= call.sent_before + n
    /\ \A p \in 1..n :
          /\ sent[call.sent_before + p].call = call.id
          /\ sent[call.sent_before + p].index = call.command.reports[p].index
          /\ sent[call.sent_before + p].bytes
                = call.command.reports[p].report_bytearray

(***************************************************************************)
(* C3: every report handed to send_feature_report is 64 bytes long; the    *)
(* log is ordered by call and, within a call, by strictly ascending report *)
(* index (so no report is handed over twice and the reports of two calls   *)
(* never interleave); a call in its loop has handed over exactly the       *)
(* reports before its position, and a call that returned from the loop     *)
(* has handed over each report of its command exactly once.                *)
(***************************************************************************)
C3_ReportsSentInOrderOnce ==
    /\ \A j \in 1..Len(sent) : Len(sent[j].bytes) = 64
    /\ \A j \in 1..(Len(sent) - 1) :
          \/ sent[j].call < sent[j + 1].call
          \/ sent[j].call = sent[j + 1].call /\ sent[j].index < sent[j + 1].index
    /\ (ctl_pc = "sending" /\ ~dry_run) =>
          /\ Len(sent) = cur.sent_before + cur.pos - 1
          /\ HandedOver(cur, cur.pos - 1)
    /\ (last.pos > 0 /\ last.exc = "none" /\ ~dry_run) =>
          /\ last.sent_after = last.sent_before + Len(last.command.reports)
          /\ HandedOver(last, Len(last.command.reports))

(***************************************************************************)
(* A key-RGB command of one frame has been sent completely, after an       *)
(* earlier command's reports.                                              *)
(***************************************************************************)
C3_Witness ==
    /\ ctl_pc = "idle"
    /\ last.op = "send_keys"
    /\ last.exc = "none"
    /\ last.sent_before > 0
    /\ Len(sent) = last.sent_before + 8

(***************************************************************************)
(* Every data slot and every footer slot the structure declares holds a    *)
(* report.                                                                 *)
(***************************************************************************)
SlotsFilled(c) ==
    \A i \in c.structure.number_of_starter_reports..(StructureLen(c.structure) - 1) :
        \E j \in 1..Len(c.reports) : c.reports[j].index = i

(***************************************************************************)
(* C4: no report of a command reaches the transport unless every declared  *)
(* data slot and footer slot of the command is filled: a call of           *)
(* _send_command on a command with an empty slot never enters the loop,    *)
(* ends with an exception and leaves the transport log as it was.          *)
(***************************************************************************)
C4_NoSendUnlessSlotsFilled ==
    /\ ctl_pc = "sending" => SlotsFilled(cur.command)
    /\ (last.command.kind # "none" /\ ~SlotsFilled(last.command)) =>
          /\ last.exc # "none"
          /\ last.sent_after = last.sent_before

TemperatureReportBytes(t) == <<42, 0, 0, 0, 0, 0, 0, 213, t>> \o Zeros(55)

(***************************************************************************)
(* C10: for every t in 0..99, send_temperature(t) on an open device        *)
(* returns having handed over exactly one report, 2A 00 00 00 00 00 00 D5  *)
(* t and zeros up to 64 bytes.                                             *)
(***************************************************************************)
C10_TemperatureSendsOneReport ==
    (last.op = "send_temperature" /\ last.arg \in 0..99 /\ last.dev = "open") =>
        /\ last.exc = "none"
        /\ last.sent_after = last.sent_before + 1
        /\ Len(sent) >= last.sent_after
        /\ sent[last.sent_after].bytes = TemperatureReportBytes(last.arg)

(***************************************************************************)
(* SpecCodec: a colour is encoded by _encode_rgb565 and the pixel decoded  *)
(* by _decode_rgb565.  Each channel in turn takes every value 0..255       *)
(* while the other two take the values of ChannelSamples.                  *)
(***************************************************************************)
ChannelSamples == {0, 7, 100, 255}

CodecInputs ==
    { <<v, x, y>> : v \in 0..255, x \in ChannelSamples, y \in ChannelSamples }
        \cup { <<x, v, y>> : v \in 0..255, x \in ChannelSamples, y \in ChannelSamples }
        \cup { <<x, y, v>> : v \in 0..255, x \in ChannelSamples, y \in ChannelSamples }
        \cup { <<100, 5, 69>> }

PixelInputs == 0..65535

CodecInit ==
    /\ rep = NoReport("none")
    /\ rsrc = [builder |-> "none", pad_on_init |-> FALSE]
    /\ rop = "none"
    /\ rexc = "none"
    /\ rdone = {}
    /\ cmd = NoCommand("none")
    /\ bpc = "idle"
    /\ b_img = 0
    /\ b_report_index = 0
    /\ b_data_buff_pointer = 0
    /\ b_frames = <<>>
    /\ order = <<>>
    /\ device = "unopened"
    /\ dry_run = FALSE
    /\ sent = <<>>
    /\ cur = NoCall
    /\ ctl_pc = "idle"
    /\ last = NoCall
    /\ ncalls = 0
    /\ closes = 0
    /\ proc = "running"
    /\ sig_delivered = "none"
    /\ \/ /\ c_rgb \in CodecInputs
          /\ c_pixel = 0
          /\ c_pc = "new"
       \/ /\ c_rgb = <<0, 0, 0>>
          /\ c_pixel \in PixelInputs
          /\ c_pc = "pixel"
    /\ c_back = <<0, 0, 0>>
    /\ o_prog = "none"
    /\ o_in = NoInput
    /\ o_pc = "start"
    /\ o_exc = "none"
    /\ o_cycles = 0
    /\ o_reading = NONE
    /\ now = 0
    /\ th = NoTimeHelper
    /\ send_start = NONE
    /\ send_gap = NONE
    /\ hid_host = DefaultHost
    /\ found = NotCalled
    /\ ready = FALSE

CallEncodeRgb565 ==
    /\ c_pc = "new"
    /\ c_pixel' = EncodeRgb565(c_rgb[1], c_rgb[2], c_rgb[3])
    /\ c_pc' = "encoded"
    /\ UNCHANGED <<c_rgb, c_back, repvars, cmdvars, ctlvars, opvars, clkvars, hidvars>>

(***************************************************************************)
(* _decode_rgb565 of the pixel at hand: the pixel a colour was encoded to  *)
(* ("decoded"), a pixel taken as it is ("unpacked"), or the pixel a        *)
(* decoded colour was encoded to again ("redecoded").                      *)
(***************************************************************************)
CallDecodeRgb565 ==
    /\ c_pc \in {"encoded", "pixel", "reencoded"}
    /\ c_back' = DecodeRgb565(c_pixel)
    /\ c_pc' = IF c_pc = "encoded" THEN "decoded"
               ELSE IF c_pc = "pixel" THEN "unpacked" ELSE "redecoded"
    /\ UNCHANGED <<c_rgb, c_pixel, repvars, cmdvars, ctlvars, opvars, clkvars, hidvars>>

(***************************************************************************)
(* _encode_rgb565 of the colour _decode_rgb565 returned.                   *)
(***************************************************************************)
CallEncodeDecoded ==
    /\ c_pc \in {"decoded", "unpacked"}
    /\ c_pixel' = EncodeRgb565(c_back[1], c_back[2], c_back[3])
    /\ c_pc' = "reencoded"
    /\ UNCHANGED <<c_rgb, c_back, repvars, cmdvars, ctlvars, opvars, clkvars, hidvars>>

CodecNext ==
    \/ CallEncodeRgb565
    \/ CallDecodeRgb565
    \/ CallEncodeDecoded

SpecCodec == CodecInit /\ [][CodecNext]_vars

AbsDiff(a, b) == IF a >= b THEN a - b ELSE b - a

(***************************************************************************)
(* C8: each channel of _decode_rgb565(_encode_rgb565(r, g, b)) differs     *)
(* from the original channel by at most 8.                                 *)
(***************************************************************************)
C8_RoundTripWithinEight ==
    c_pc = "decoded" =>
        \A ch \in 1..3 : AbsDiff(c_back[ch], c_rgb[ch]) <= 8

(***************************************************************************)
(* A colour whose red channel loses its three low bits and whose green     *)
(* channel gains from the bit replication.                                 *)
(***************************************************************************)
C8_Witness ==
    /\ c_pc = "decoded"
    /\ c_rgb = <<7, 255, 100>>
    /\ c_back = <<0, 255, 99>>

(***************************************************************************)
(* C11: whenever SIGINT, SIGTERM or SIGQUIT has ended the process, also in *)
(* the middle of a command, the device has been closed first: the process  *)
(* does not end with an opened HID handle.                                 *)
(***************************************************************************)
C11_SignalClosesDevice ==
    sig_delivered # "none" => device \notin {"open", "lost"}

FormatTime(time) ==
    Fmt04x(time.year) \o Fmt02x(time.month) \o Fmt02x(time.day)
        \o Fmt02x(time.hour) \o Fmt02x(time.minute) \o Fmt02x(time.second)

EpomakerTimeCommand(time) ==
    LET initialization_data ==
            <<2,8, 0,0, 0,0, 0,0, 0,0, 0,0, 0,0, 13,7>> \o FormatTime(time)
    IN  EpomakerCommand("Time", Report(initialization_data, NONE, 0), DefaultStructure)

(***************************************************************************)
(* The values get_cpu_usage and get_device_temp can return: a random       *)
(* integer 0..99 in test mode, else the rounded psutil percentage          *)
(* (0..100) and the rounded sensor value (0 when the key is not found).    *)
(***************************************************************************)
SensorRange == (0 - 50)..150

GetCpuUsage(test_mode) == IF test_mode THEN 0..99 ELSE 0..100

GetDeviceTemp(test_mode) == IF test_mode THEN 0..99 ELSE SensorRange

(***************************************************************************)
(* A whole call of a sending method of the controller on device dev with   *)
(* transport log log: what it raises and the log it leaves.  pre is what   *)
(* the method decided before _send_command ("return": it returned early).  *)
(***************************************************************************)
PacketsHandedOver(command) ==
    LET bad == {p \in 1..Len(command.reports) : PacketExc(command.reports[p]) # "none"}
    IN  IF bad = {} THEN Len(command.reports)
        ELSE (CHOOSE p \in bad : \A q \in bad : p <= q) - 1

SendCommand(op, arg, pre, command, dev, log) ==
    LET before == IF pre = "return" THEN "none"
                  ELSE IF pre # "none" THEN pre
                  ELSE IF command.exc # "none" THEN command.exc
                  ELSE SendCommandExc(dev, command)
        entered == pre = "none" /\ before = "none"
        n == IF entered THEN PacketsHandedOver(command) ELSE 0
    IN  [exc |-> IF ~entered THEN before
                 ELSE IF n < Len(command.reports)
                      THEN PacketExc(command.reports[n + 1])
                      ELSE "none",
         sent |-> log \o [p \in 1..n |->
                             [call |-> Len(log) + 1, op |-> op, arg |-> arg,
                              index |-> command.reports[p].index,
                              bytes |-> command.reports[p].report_bytearray]]]

(***************************************************************************)
(* start_daemon: the statement that follows the one at pc.                 *)
(***************************************************************************)
StartDaemonNext_TimeEveryCycle(pc, temp_key, test_mode) ==
    IF pc = "time" THEN "cpu"
    ELSE IF pc = "cpu" /\ (temp_key \/ test_mode) THEN "temp"
    ELSE "time"

StartDaemonNext(pc, temp_key, test_mode) ==
    IF pc = "time" THEN "cpu"
    ELSE IF pc = "cpu" /\ (temp_key \/ test_mode) THEN "temp"
    ELSE "cpu"

(***************************************************************************)
(* SpecOp: one program drives one controller from construction to its end: *)
(* a command of the command line (upload_image, send_cpu,                  *)
(* send_temperature), a with-block on the controller, or a caller that     *)
(* opens the device and runs start_daemon.  Each step is one call on the   *)
(* controller.  The keyboard can be unplugged at any time.                 *)
(***************************************************************************)
MaxCycles == 2

CliPrograms == {"upload_image", "send_cpu", "send_temperature"}

Programs == CliPrograms \cup {"with_block", "start_daemon", "open_device"}

ProductIdConfigs ==
    { DEFAULT_MAIN_CONFIG,
      [PRODUCT_IDS_WIRED |-> <<16405, 16400>>, PRODUCT_IDS_24G |-> <<16406>>] }

Hosts(prog) ==
    IF prog = "open_device"
    THEN [config : ProductIdConfigs, use_wireless : BOOLEAN,
          attached : SUBSET {16400, 16405, 16401, 16406}]
    ELSE {DefaultHost}

SampleDateTimes ==
    { [year |-> 2024, month |-> 2, day |-> 29, hour |-> 23, minute |-> 59, second |-> 58],
      [year |-> 2026, month |-> 11, day |-> 3, hour |-> 0, minute |-> 0, second |-> 0] }

CpuReadings == {0, 50, 99, 100}

TempReadings == {0 - 5, 0, 45, 100}

SendDurations == {0, 3}

BodyDurations == {0, 5, 16, 30}

MinDurations == {16, 20, 40}

ProgramInputs(prog) ==
    IF prog = "time_helper"
    THEN { [NoInput EXCEPT !.arg = d] : d \in MinDurations }
    ELSE IF prog = "open_device"
    THEN { NoInput }
    ELSE IF prog = "upload_image"
    THEN { [NoInput EXCEPT !.arg = k] : k \in 1..Len(ImagePathInputs) }
    ELSE IF prog = "send_temperature"
    THEN { [NoInput EXCEPT !.arg = t] : t \in TemperatureInputs }
    ELSE IF prog = "start_daemon"
    THEN { [arg |-> 0, temp_key |-> k, test_mode |-> t] : k \in BOOLEAN, t \in BOOLEAN }
    ELSE { [NoInput EXCEPT !.arg = c] : c \in CpuInputs }

OpInit ==
    /\ rep = NoReport("none")
    /\ rsrc = [builder |-> "none", pad_on_init |-> FALSE]
    /\ rop = "none"
    /\ rexc = "none"
    /\ rdone = {}
    /\ cmd = NoCommand("none")
    /\ bpc = "idle"
    /\ b_img = 0
    /\ b_report_index = 0
    /\ b_data_buff_pointer = 0
    /\ b_frames = <<>>
    /\ order = <<>>
    /\ device = "unopened"
    /\ dry_run = FALSE
    /\ sent = <<>>
    /\ cur = NoCall
    /\ ctl_pc = "idle"
    /\ last = NoCall
    /\ ncalls = 0
    /\ closes = 0
    /\ proc = "running"
    /\ sig_delivered = "none"
    /\ c_rgb = <<0, 0, 0>>
    /\ c_pixel = 0
    /\ c_back = <<0, 0, 0>>
    /\ c_pc = "new"
    /\ o_prog \in Programs \cup {"time_helper"}
    /\ o_in \in ProgramInputs(o_prog)
    /\ o_pc = "start"
    /\ o_exc = "none"
    /\ o_cycles = 0
    /\ o_reading = NONE
    /\ now = 0
    /\ th = NoTimeHelper
    /\ send_start = NONE
    /\ send_gap = NONE
    /\ hid_host \in Hosts(o_prog)
    /\ found = NotCalled
    /\ ready = FALSE

(***************************************************************************)
(* The program's call of open_device.  An exception ends a command of the  *)
(* command line in its except branch and a with-block in __enter__; a      *)
(* caller of start_daemon does not start it.                               *)
(***************************************************************************)
OpOpenDevice ==
    /\ o_prog \in Programs
    /\ o_pc = "start"
    /\ LET product_id == FindProductId(ProductIds(hid_host.config, hid_host.use_wireless),
                                       hid_host.attached)
       IN  /\ found' = [called |-> TRUE, product_id |-> product_id]
           /\ \/ /\ o_exc' = "ValueError"        \* no product id, no device path
                 /\ o_pc' = "done"
                 /\ UNCHANGED <<device, closes, ready>>
              \/ /\ ~(product_id = NONE \/ product_id = 0)
                 /\ o_exc' = "AssertionError"    \* open_path raised
                 /\ o_pc' = "done"
                 /\ device' = "none"
                 /\ closes' = 0
                 /\ UNCHANGED ready
              \/ /\ ~(product_id = NONE \/ product_id = 0)
                 /\ o_exc' = "none"
                 /\ o_pc' = IF o_prog = "start_daemon" THEN "time"
                            ELSE IF o_prog = "open_device" THEN "done" ELSE "body"
                 /\ device' = "open"
                 /\ closes' = 0
                 /\ ready' = IF o_prog = "with_block" THEN TRUE ELSE ready
    /\ UNCHANGED <<dry_run, sent, cur, ctl_pc, last, ncalls, proc, sig_delivered, hid_host,
                   o_prog, o_in, o_cycles, o_reading, repvars, cmdvars, codvars, clkvars>>

(***************************************************************************)
(* The call the program makes on the opened controller.                    *)
(***************************************************************************)
ProgramCall(prog, in, dev, log) ==
    IF prog = "upload_image"
    THEN SendCommand("send_image", in.arg, "none",
                     [EpomakerImageCommand EXCEPT
                         !.exc = EncodeImageExc(ImagePathInputs[in.arg])],
                     dev, log)
    ELSE IF prog = "send_temperature"
    THEN SendCommand("send_temperature", in.arg, SendTemperaturePre(in.arg, FALSE),
                     EpomakerTempCommand(in.arg), dev, log)
    ELSE SendCommand("send_cpu", in.arg, SendCpuPre(in.arg),
                     EpomakerCpuCommand(in.arg), dev, log)

(***************************************************************************)
(* A command of the command line after open_device returned True: the      *)
(* send, then close_device; an exception of the send goes to the except    *)
(* branch, which prints it.                                                *)
(***************************************************************************)
CliSend ==
    /\ o_prog \in CliPrograms
    /\ o_pc = "body"
    /\ LET r == ProgramCall(o_prog, o_in, device, sent)
       IN  /\ sent' = r.sent
           /\ o_exc' = r.exc
           /\ o_pc' = IF r.exc = "none" THEN "close" ELSE "done"
    /\ UNCHANGED <<device, dry_run, cur, ctl_pc, last, ncalls, closes, proc,
                   sig_delivered, o_prog, o_in, o_cycles, o_reading,
                   repvars, cmdvars, codvars, clkvars, hidvars>>

CliCloseDevice ==
    /\ o_prog \in CliPrograms
    /\ o_pc = "close"
    /\ device' = CloseDeviceDevice(device)
    /\ closes' = CloseDeviceCloses(device, closes)
    /\ o_pc' = "done"
    /\ UNCHANGED <<dry_run, sent, cur, ctl_pc, last, ncalls, proc, sig_delivered,
                   o_prog, o_in, o_exc, o_cycles, o_reading, repvars, cmdvars, codvars, clkvars, hidvars>>

(***************************************************************************)
(* with controller: the body (a send_cpu), then __exit__, which runs       *)
(* whether or not the body raised.                                         *)
(***************************************************************************)
WithBody ==
    /\ o_prog = "with_block"
    /\ o_pc = "body"
    /\ LET r == ProgramCall(o_prog, o_in, device, sent)
       IN  /\ sent' = r.sent
           /\ o_exc' = r.exc
    /\ o_pc' = "exit"
    /\ UNCHANGED <<device, dry_run, cur, ctl_pc, last, ncalls, closes, proc,
                   sig_delivered, o_prog, o_in, o_cycles, o_reading,
                   repvars, cmdvars, codvars, clkvars, hidvars>>

WithExit ==
    /\ o_prog = "with_block"
    /\ o_pc = "exit"
    /\ device' = CloseDeviceDevice(device)
    /\ closes' = CloseDeviceCloses(device, closes)
    /\ o_pc' = "done"
    /\ UNCHANGED <<dry_run, sent, cur, ctl_pc, last, ncalls, proc, sig_delivered,
                   o_prog, o_in, o_exc, o_cycles, o_reading, repvars, cmdvars, codvars, clkvars, hidvars>>

(***************************************************************************)
(* start_daemon, one send per step.  An exception of a send leaves         *)
(* start_daemon ("left"): nothing in it catches one.                       *)
(***************************************************************************)
DaemonStep(r, reading, started, ended) ==
    LET next == StartDaemonNext(o_pc, o_in.temp_key, o_in.test_mode)
    IN  /\ sent' = r.sent
        /\ o_exc' = r.exc
        /\ o_reading' = reading
        /\ o_pc' = IF r.exc # "none" THEN "left" ELSE next
        /\ o_cycles' = IF r.exc = "none" /\ o_pc # "time" /\ next # "temp"
                       THEN o_cycles + 1 ELSE o_cycles
        /\ now' = ended
        /\ send_start' = IF started = NONE THEN send_start ELSE started
        /\ send_gap' = IF started = NONE \/ send_start = NONE
                       THEN send_gap ELSE started - send_start
        /\ UNCHANGED <<device, dry_run, cur, ctl_pc, last, ncalls, closes, proc,
                       sig_delivered, o_prog, o_in, repvars, cmdvars, codvars, hidvars>>

DaemonSendTime ==
    /\ o_prog = "start_daemon"
    /\ o_pc = "time"
    /\ o_cycles < MaxCycles
    /\ UNCHANGED th
    /\ \E time \in SampleDateTimes, took \in SendDurations :
          DaemonStep(SendCommand("send_time", time.year, "none",
                                 EpomakerTimeCommand(time), device, sent), NONE,
                     NONE, now + took)

(***************************************************************************)
(* th_cpu = TimeHelper(min_duration=1.6); send_cpu(get_cpu_usage(..));     *)
(* del th_cpu.  The sampler returns before send_cpu is called.             *)
(***************************************************************************)
DaemonSendCpu ==
    /\ o_prog = "start_daemon"
    /\ o_pc = "cpu"
    /\ o_cycles < MaxCycles
    /\ \E cpu \in GetCpuUsage(o_in.test_mode) \cap CpuReadings, took \in SendDurations :
          LET th_cpu == TimeHelper(DaemonMinDuration, now)
              started == now + SamplerTime(o_in.test_mode)
          IN  /\ th' = th_cpu
              /\ DaemonStep(SendCommand("send_cpu", cpu, SendCpuPre(cpu),
                                        EpomakerCpuCommand(cpu), device, sent), cpu,
                            started, DelTimeHelper(th_cpu, started + took))

(***************************************************************************)
(* With a temp_key the send stands between th_temp = TimeHelper(..) and    *)
(* del th_temp; without one (test mode) time.sleep(1.6) follows it.        *)
(***************************************************************************)
DaemonSendTemperature ==
    /\ o_prog = "start_daemon"
    /\ o_pc = "temp"
    /\ \E temperature \in GetDeviceTemp(o_in.test_mode) \cap TempReadings,
          took \in SendDurations :
          LET th_temp == TimeHelper(DaemonMinDuration, now)
              r == SendCommand("send_temperature", temperature,
                               SendTemperaturePre(temperature, FALSE),
                               EpomakerTempCommand(temperature), device, sent)
          IN  /\ th' = IF o_in.temp_key THEN th_temp ELSE th
              /\ DaemonStep(r, temperature, now,
                            IF o_in.temp_key
                            THEN DelTimeHelper(th_temp, now + took)
                            ELSE IF r.exc = "none" THEN now + took + DaemonSleep
                            ELSE now + took)

(***************************************************************************)
(* with TimeHelper(min_duration): body.  The body takes any time.          *)
(***************************************************************************)
TimeHelperScopeEnter ==
    /\ o_prog = "time_helper"
    /\ o_pc = "start"
    /\ th' = TimeHelperEnter(TimeHelper(o_in.arg, now), now)
    /\ o_pc' = "body"
    /\ UNCHANGED <<now, send_start, send_gap, o_prog, o_in, o_exc, o_cycles, o_reading,
                   repvars, cmdvars, ctlvars, codvars, hidvars>>

TimeHelperScopeBody ==
    /\ o_prog = "time_helper"
    /\ o_pc = "body"
    /\ \E took \in BodyDurations : now' = now + took
    /\ o_pc' = "exit"
    /\ UNCHANGED <<th, send_start, send_gap, o_prog, o_in, o_exc, o_cycles, o_reading,
                   repvars, cmdvars, ctlvars, codvars, hidvars>>

TimeHelperScopeExit ==
    /\ o_prog = "time_helper"
    /\ o_pc = "exit"
    /\ now' = TimeHelperExit(th, now)
    /\ o_pc' = "done"
    /\ UNCHANGED <<th, send_start, send_gap, o_prog, o_in, o_exc, o_cycles, o_reading,
                   repvars, cmdvars, ctlvars, codvars, hidvars>>

OpNext ==
    \/ OpOpenDevice
    \/ TimeHelperScopeEnter
    \/ TimeHelperScopeBody
    \/ TimeHelperScopeExit
    \/ DeviceLost
    \/ CliSend
    \/ CliCloseDevice
    \/ WithBody
    \/ WithExit
    \/ DaemonSendTime
    \/ DaemonSendCpu
    \/ DaemonSendTemperature

SpecOp == OpInit /\ [][OpNext]_vars

C15_OutOfRangeReadingSkipped ==
    (o_prog = "start_daemon" /\ o_reading # NONE /\ ~AssertRange(o_reading))
        => (o_exc = "none" /\ o_pc # "left")

(***************************************************************************)
(* C16: when a send of the daemon loop (a send after the Time command)     *)
(* raised an I/O error and control has left start_daemon, the device is    *)
(* closed.                                                                 *)
(***************************************************************************)
C16_DeviceClosedWhenDaemonLeft ==
    (o_prog = "start_daemon" /\ o_pc = "left" /\ o_exc = "IOError" /\ Len(sent) > 0)
        => device \notin {"open", "lost"}

(***************************************************************************)
(* C17: in a dry run a call that hands a prepared command to _send_command *)
(* on the controller as open_device left it visits every report of the     *)
(* command and raises nothing.                                             *)
(***************************************************************************)
C17_DryRunVisitsEveryReport ==
    ( /\ dry_run
      /\ last.dev = "unopened"
      /\ last.command.kind # "none"
      /\ last.command.exc = "none"
      /\ last.command.report_data_prepared
      /\ \A p \in 1..Len(last.command.reports) :
            PacketExc(last.command.reports[p]) = "none" )
        => /\ last.exc = "none"
           /\ last.pos = Len(last.command.reports)

(***************************************************************************)
(* C18: _insert_report fails exactly when a report with the same index is  *)
(* already in the command or the index is not below the structure's        *)
(* length; a failed insert leaves the report collection as it was, a       *)
(* successful one adds the report.                                         *)
(***************************************************************************)
C18_FailedInsertLeavesCollection ==
    [][CallInsertReport =>
          LET index == b_report_index'
              present == \E j \in 1..Len(cmd.reports) : cmd.reports[j].index = index
              beyond == index >= StructureLen(cmd.structure)
          IN  /\ (cmd'.exc # "none") <=> (present \/ beyond)
              /\ cmd'.exc # "none" => (cmd'.reports = cmd.reports /\ order' = order)
              /\ cmd'.exc = "none" =>
                    /\ Len(cmd'.reports) = Len(cmd.reports) + 1
                    /\ \E j \in 1..Len(cmd'.reports) : cmd'.reports[j].index = index]_vars

C18_Witness ==
    /\ bpc = "open"
    /\ cmd.exc = "AssertionError"
    /\ Len(cmd.reports) = 2
    /\ b_report_index < StructureLen(cmd.structure)
    /\ \E j \in 1..Len(cmd.reports) : cmd.reports[j].index = b_report_index

(***************************************************************************)
(* C19: send_image with a path that names no file raises no error and      *)
(* sends nothing.                                                          *)
(***************************************************************************)
C19_SendImageWrongPathIsSilent ==
    (last.op = "send_image" /\ ~ImagePathInputs[last.arg].readable)
        => /\ last.exc = "none"
           /\ last.sent_after = last.sent_before

(***************************************************************************)
(* C20: after prepare_from_sequence the WirelessInit command is prepared   *)
(* and holds, in index order, the starter FE 40 and then one report per    *)
(* entry of CHUNKS; report i carries entry i-1 as its header, and every    *)
(* entry is a chunk of one byte or of eight bytes.                         *)
(***************************************************************************)
C20_WirelessInitCarriesChunks ==
    (cmd.kind = "WirelessInit" /\ bpc = "done") =>
        /\ cmd.report_data_prepared
        /\ Len(cmd.reports) = Len(CHUNKS) + 1
        /\ cmd.reports[1].index = 0
        /\ cmd.reports[1].hdr = <<254, 64>>
        /\ \A i \in 1..Len(CHUNKS) :
              /\ cmd.reports[i + 1].index = i
              /\ cmd.reports[i + 1].hdr = FromHex(CHUNKS[i])
              /\ Len(cmd.reports[i + 1].hdr) \in {1, 8}

(***************************************************************************)
(* The header of the Profile report for mode ALWAYS_ON, default speed and  *)
(* brightness, dazzle off, option off, rgb (180, 180, 180):                *)
(* 07 01 04 04 07 B4 B4 B4.                                                *)
(***************************************************************************)
GoldenProfileHeader == <<7, 1, 4, 4, 7, 180, 180, 180>>

(***************************************************************************)
(* C21 as stated: the checksum of the header 07 01 04 04 07 B4 B4 B4 is    *)
(* 0x7B, at byte 8 of the report.                                          *)
(***************************************************************************)
C21_GoldenChecksumIs7B ==
    (rep.exc = "none" /\ rsrc.builder = "profile" /\ rep.hdr = GoldenProfileHeader)
        => rep.report_bytearray[9] = 123

(***************************************************************************)
(* C21: the checksum of the header 07 01 04 04 07 B4 B4 B4 is 0xCC (the    *)
(* header bytes sum to 0x233, low byte 0x33, complement 0xCC), at byte 8   *)
(* of the report, and the rest of the 64 bytes is zero.                    *)
(***************************************************************************)
C21_GoldenChecksumIsCC ==
    (rep.exc = "none" /\ rsrc.builder = "profile" /\ rep.hdr = GoldenProfileHeader)
        => /\ rep.checksum_index = 8
           /\ rep.report_bytearray = GoldenProfileHeader \o <<204>> \o Zeros(55)

C21_Witness ==
    /\ rep.exc = "none"
    /\ rsrc.builder = "profile"
    /\ rop = "init"
    /\ rep.hdr = GoldenProfileHeader
    /\ Len(rep.report_bytearray) = 64

(***************************************************************************)
(* C22 as stated: _encode_rgb565(100, 5, 69) is 0x632A, and decoding the   *)
(* packed value gives (99, 4, 66).                                         *)
(***************************************************************************)
C22_GoldenPixelIs632A ==
    (c_rgb = <<100, 5, 69>> /\ c_pc \in {"encoded", "decoded"})
        => /\ c_pixel = 25386
           /\ c_pc = "decoded" => c_back = <<99, 4, 66>>

(***************************************************************************)
(* C22: _encode_rgb565(100, 5, 69) is 0x6028 (red 0x60 << 8, green         *)
(* 0x04 << 3, blue 0x40 >> 3), and _decode_rgb565 of that value is         *)
(* (99, 4, 66).                                                            *)
(***************************************************************************)
C22_GoldenPixelIs6028 ==
    (c_rgb = <<100, 5, 69>> /\ c_pc \in {"encoded", "decoded"})
        => /\ c_pixel = 24616
           /\ c_pc = "decoded" => c_back = <<99, 4, 66>>

C22_Witness ==
    /\ c_rgb = <<100, 5, 69>>
    /\ c_pc = "decoded"
    /\ c_back = <<99, 4, 66>>

(***************************************************************************)
(* Bytes 0..6 of image report i as C23 states them: 25 00 01 00 LO HI 38   *)
(* with LO, HI the low and the high byte of i - 1 for i in 1..1000, and    *)
(* 25 00 01 00 E8 03 34 for i = 1001.                                      *)
(***************************************************************************)
ImageHeaderBytes(i) ==
    IF i = 1001 THEN <<37, 0, 1, 0, 232, 3, 52>>
    ELSE <<37, 0, 1, 0, (i - 1) % 256, (i - 1) \div 256, 56>>

(***************************************************************************)
(* C23: after encode_image report 0 is a5000100f4da008b0000a2ad padded     *)
(* with zeros, without checksum; bytes 0..6 of report i, i in 1..1000, are *)
(* 25 00 01 00 LO HI 38 (low byte of i - 1 first); bytes 0..6 of report    *)
(* 1001 are 25 00 01 00 E8 03 34; the flag 0x34 at byte 6 occurs in report *)
(* 1001 only.  While the data loop runs, the report it inserted last has   *)
(* that header already.                                                    *)
(***************************************************************************)
C23_ImageReportHeaders ==
    /\ cmd.kind = "Image" /\ bpc \in {"encoding", "done"} =>
          /\ cmd.reports[1].index = 0
          /\ cmd.reports[1].checksum_index = NONE
          /\ cmd.reports[1].report_bytearray
                = <<165, 0, 1, 0, 244, 218, 0, 139, 0, 0, 162, 173>> \o Zeros(52)
    /\ cmd.kind = "Image" /\ bpc = "encoding" /\ Len(cmd.reports) > 1 =>
          LET n == Len(cmd.reports) - 1
          IN  /\ cmd.reports[n + 1].index = n
              /\ SubSeq(cmd.reports[n + 1].report_bytearray, 1, 7) = ImageHeaderBytes(n)
    /\ cmd.kind = "Image" /\ bpc = "done" =>
          /\ Len(cmd.reports) = 1002
          /\ \A i \in 1..1001 :
                /\ cmd.reports[i + 1].index = i
                /\ SubSeq(cmd.reports[i + 1].report_bytearray, 1, 7) = ImageHeaderBytes(i)
          /\ \A j \in 1..1002 :
                (cmd.reports[j].report_bytearray[7] = 52) <=> (j = 1002)

C23_Witness ==
    /\ cmd.kind = "Image"
    /\ bpc = "done"
    /\ SubSeq(cmd.reports[258].report_bytearray, 1, 7) = <<37, 0, 1, 0, 0, 1, 56>>
    /\ SubSeq(cmd.reports[1002].report_bytearray, 1, 7) = <<37, 0, 1, 0, 232, 3, 52>>
    /\ cmd.reports[1001].report_bytearray[7] = 56

(***************************************************************************)
(* C24: in a key-RGB command built from a list of F frames the data        *)
(* reports carry every pair (frame_index, sub_index) of                    *)
(* {0..F-1} x {0..6} exactly once; bytes 0..6 of a data report are         *)
(* 19 SS FI FT TM 00 00 with FT = F and TM the frame's time_ms, and the 7  *)
(* reports of the frame at list position p are reports 1+7p .. 7+7p in     *)
(* ascending sub_index.                                                    *)
(***************************************************************************)
C24_EveryFrameSubIndexOnce ==
    bpc = "done" /\ cmd.kind = "KeyRGB" =>
        LET F == Len(b_frames)
        IN  /\ Len(cmd.reports) = 1 + 7 * F
            /\ \A p \in 0..(F - 1) : \A ss \in 0..6 :
                  LET b == cmd.reports[2 + 7 * p + ss].report_bytearray
                  IN  /\ b[1] = 25
                      /\ b[2] = ss
                      /\ b[4] = F
                      /\ b[5] = b_frames[p + 1].time_ms
                      /\ b[6] = 0
                      /\ b[7] = 0
            /\ \A fi \in 0..(F - 1) : \A ss \in 0..6 :
                  Cardinality({ j \in 2..Len(cmd.reports) :
                                   /\ cmd.reports[j].report_bytearray[2] = ss
                                   /\ cmd.reports[j].report_bytearray[3] = fi }) = 1

(***************************************************************************)
(* The scope of a TimeHelper used in a with statement ends no earlier than *)
(* min_duration after it was entered.                                      *)
(***************************************************************************)
TimeHelperScopeLastsMinDuration ==
    (o_prog = "time_helper" /\ o_pc = "done")
        => now - th.start_time >= th.min_duration

(***************************************************************************)
(* C25: in the daemon loop at least the guard's minimum duration (1.6 s)   *)
(* lies between the start of one CPU or temperature send and the start of  *)
(* the next one, however quickly the sampler and the send return; and a    *)
(* TimeHelper used as a scope never lets the scope end earlier than        *)
(* min_duration after it was entered.                                      *)
(***************************************************************************)
C25_MinDurationBetweenSends ==
    /\ (o_prog = "start_daemon" /\ send_gap # NONE) => send_gap >= DaemonMinDuration
    /\ TimeHelperScopeLastsMinDuration

(***************************************************************************)
(* C26: a payload can be appended to a report only once and only before    *)
(* padding: add_data on a prepared ReportWithData fails, and a header or   *)
(* a payload that would make the report longer than 64 bytes fails; after  *)
(* either failure the report's bytes and its prepared flag are what they   *)
(* were before the call, and the report is never longer than 64 bytes.     *)
(***************************************************************************)
C26_FailedAddDataLeavesReport ==
    /\ [][ rop' = "add_data" =>
              /\ (rep.prepared => rexc' # "none")
              /\ (rexc' = "none" => Len(rep'.report_bytearray) = BUFF_LENGTH)
              /\ (rexc' # "none" =>
                      /\ rep'.report_bytearray = rep.report_bytearray
                      /\ rep'.prepared = rep.prepared) ]_vars
    /\ [](rop = "init" /\ rexc # "none" => rep.cls = "none")
    /\ [](Len(rep.report_bytearray) <= BUFF_LENGTH)

(***************************************************************************)
(* C27: _find_product_id returns the first product ID, in configured       *)
(* order, of the active set (the wired IDs when USE_WIRELESS is false, the *)
(* 2.4 GHz IDs when it is true) whose enumeration returns at least one     *)
(* device, never an ID of the inactive set, and returns None when no ID of *)
(* the active set returns a device; open_device then raises and opens      *)
(* nothing.                                                                *)
(***************************************************************************)
ActiveIds ==
    IF hid_host.use_wireless THEN hid_host.config.PRODUCT_IDS_24G
    ELSE hid_host.config.PRODUCT_IDS_WIRED

InactiveIds ==
    IF hid_host.use_wireless THEN hid_host.config.PRODUCT_IDS_WIRED
    ELSE hid_host.config.PRODUCT_IDS_24G

C27_FirstActiveProductId ==
    found.called =>
        /\ found.product_id # NONE =>
              /\ \E i \in 1..Len(ActiveIds) :
                    /\ ActiveIds[i] = found.product_id
                    /\ ActiveIds[i] \in hid_host.attached
                    /\ \A j \in 1..(i - 1) : ActiveIds[j] \notin hid_host.attached
              /\ \A k \in 1..Len(InactiveIds) : InactiveIds[k] # found.product_id
        /\ found.product_id = NONE =>
              /\ \A i \in 1..Len(ActiveIds) : ActiveIds[i] \notin hid_host.attached
              /\ o_exc = "ValueError"
              /\ device = "unopened"
              /\ sent = <<>>
        /\ (\A i \in 1..Len(ActiveIds) : ActiveIds[i] \notin hid_host.attached)
              => found.product_id = NONE

C27_Witness ==
    /\ o_prog = "open_device"
    /\ found.called
    /\ hid_host.use_wireless
    /\ hid_host.config = DEFAULT_MAIN_CONFIG
    /\ hid_host.attached = {16400, 16406}
    /\ found.product_id = 16406
    /\ device = "open"

C27_NoneWitness ==
    /\ o_prog = "open_device"
    /\ found.called
    /\ hid_host.attached = {16401, 16406}
    /\ ~hid_host.use_wireless
    /\ found.product_id = NONE

(***************************************************************************)
(* C28: after close_device no report reaches the device: every send        *)
(* operation attempted after close_device and before a new successful      *)
(* open_device fails before its first send_feature_report call.            *)
(***************************************************************************)
SendOperations ==
    {"send_temperature", "send_cpu", "set_profile", "send_keys", "send_image",
     "_send_command"}

ClosedByCloseDevice(dev) == dev = "none" /\ closes >= 1

C28_NoSendAfterCloseDevice ==
    /\ (proc = "running" /\ ClosedByCloseDevice(device)) => ctl_pc = "idle"
    /\ (last.op \in SendOperations /\ ClosedByCloseDevice(last.dev)) =>
           /\ last.exc # "none"
           /\ last.pos = 0
           /\ last.sent_after = last.sent_before

(***************************************************************************)
(* C29: ControllerBase.ready is true only while the device is open: it is  *)
(* false before the scope is entered, equals the result of open_device     *)
(* inside the scope, and is false again once __exit__ has closed the       *)
(* device.                                                                 *)
(***************************************************************************)
C29_ReadyOnlyWhileOpen ==
    o_prog = "with_block" =>
        /\ o_pc = "start" => ~ready
        /\ o_pc \in {"body", "exit"} => ready
        /\ o_pc = "done" => ~ready
        /\ ready => device \in {"open", "lost"}

(***************************************************************************)
(* C30: for every 16-bit pixel value p every channel _decode_rgb565(p)     *)
(* returns lies in 0..255 and _encode_rgb565(_decode_rgb565(p)) = p; hence *)
(* encoding and decoding a colour a second time returns the same colour as *)
(* the first time.                                                         *)
(***************************************************************************)
C30_DecodeThenEncodeIsIdentity ==
    /\ [](c_pc \in {"decoded", "unpacked", "redecoded"}
            => \A ch \in 1..3 : c_back[ch] \in 0..255)
    /\ [][c_pc' = "reencoded" => c_pixel' = c_pixel]_vars
    /\ [][c_pc' = "redecoded" => c_back' = c_back]_vars

C30_Witness ==
    /\ c_pc = "redecoded"
    /\ c_pixel = 43690
    /\ c_back = <<173, 85, 82>>

C30_LossyWitness ==
    /\ c_pc = "redecoded"
    /\ c_rgb = <<100, 5, 69>>
    /\ c_pixel = 24616
    /\ c_back = <<99, 4, 66>>

====
